---- MODULE Spec2Model ----
(***************************************************************************)
(* Model of the voice recording hook (useVoice, apps/web hooks/use-voice)  *)
(* and of the audio-reactive particle parameter hook                       *)
(* (useAudioReactiveParticles).                                            *)
(*                                                                         *)
(* Spec          the recording lifecycle of useVoice                       *)
(* SpecParticles the recording-phase / loading machine of the mapper       *)
(* SpecMap       the audio-to-parameter mapping as a pure function         *)
(***************************************************************************)
EXTENDS Integers, Sequences, FiniteSets, TLC

\* ------------------------------------------------------------------ bounds
\* number of startRecording() invocations explored
MaxStarts == 2
\* cap on the length of recordedChunksRef
MaxChunks == 1
\* cap on the number of analysis ticks between two resets of the history
MaxTicks == 1

Calls == 1 .. MaxStarts

\* volumes (percent) an analysis tick may measure
Volumes == {0, 60}

\* --------------------------------------------------------------- constants
voiceThreshold == 30
historyLength == 10

ErrNone == "null"
ErrUnsupported == "MediaDevices API not supported"
ErrPermissionDenied == "Microphone permission denied"
ErrDeviceNotFound == "No microphone found"
ErrAcquisitionFailed == "Microphone access failed: message"
ErrUnknownMic == "Unknown microphone access error"
ErrNoAudioCaptured == "No audio data was recorded"
ErrPlatform == "platform error message"
ErrRecordingFailed == "Recording failed: message"

NullBlob == [isNull |-> TRUE, chunks |-> <<>>]
ZeroFrame == [amplitude |-> 0]

VARIABLES
  \* useVoice: React state
  isRecording, hasPermission, recordedAudio, error, audioProcessingMode,
  currentVolume, isVoiceDetected, audioData,
  \* useVoice: refs (0 is null, k > 0 the object made by invocation k)
  audioContextRef, mediaStreamRef, mediaRecorderRef, audioNodesRef,
  animationFrameRef, recordedChunksRef, volumeHistoryRef,
  \* the invocations of startRecording and the platform objects they made
  call, hw, rafOther, supported,
  \* what getUserMedia last rejected with ("none" before the first rejection)
  lastMicRejection,
  \* how many teardown calls (stopRecording, cleanup) ran last in succession
  teardowns

voiceVars == <<isRecording, hasPermission, recordedAudio, error,
               audioProcessingMode, currentVolume, isVoiceDetected, audioData,
               audioContextRef, mediaStreamRef, mediaRecorderRef, audioNodesRef,
               animationFrameRef, recordedChunksRef, volumeHistoryRef,
               call, hw, rafOther, supported, lastMicRejection, teardowns>>

VARIABLES
  \* useAudioReactiveParticles: React state
  baseParams, loadingState, recordingPhase,
  \* useAudioReactiveParticles: refs
  targetParamsRef, wasRecordingRef,
  \* the feature frame VoiceRecorder passes to onAudioData (audioData plus
  \* isRecording) and whether its effect has yet to run for the last render
  dataToSend, effectPending,
  \* the loading sequences simulateLoading started whose timers are pending
  loadings

particleVars == <<baseParams, loadingState, recordingPhase, targetParamsRef,
                  wasRecordingRef, dataToSend, effectPending, loadings>>

VARIABLES
  \* the arguments a specification of a pure function feeds it, and the
  \* result of applying it
  fnArgs, fnResult

VARIABLES
  \* useVoice: the invocations of getRecordedAudioAsWav
  wavCall

VARIABLES
  \* useVoice: the isPlaying state, the playbackAudioRef ref (0 is null, e > 0
  \* the element made by the e-th effective playRecording) and the Audio
  \* elements playRecording made
  isPlaying, playbackAudioRef, audio

VARIABLES
  \* whether the component that uses useAudioReactiveParticles is mounted
  mounted

pureVars == <<fnArgs, fnResult>>
playbackVars == <<isPlaying, playbackAudioRef, audio>>

vars == <<voiceVars, particleVars, pureVars, wavCall, playbackVars, mounted>>

\* what a specification of one part leaves alone
nonVoiceVars == <<particleVars, pureVars, wavCall, playbackVars, mounted>>
nonParticleVars == <<voiceVars, pureVars, wavCall, playbackVars, mounted>>

\* ----------------------------------------------------------- pure helpers
Min2(n) == IF n > 2 THEN 2 ELSE n

RECURSIVE SumSeq(_)
SumSeq(s) == IF s = <<>> THEN 0 ELSE Head(s) + SumSeq(Tail(s))

\* requestMicrophoneAccess: the constraints object for a processing mode
ConstraintsFor(mode) ==
  IF mode = "native"
  THEN [echoCancellation |-> TRUE, noiseSuppression |-> TRUE, autoGainControl |-> TRUE]
  ELSE [echoCancellation |-> TRUE, noiseSuppression |-> FALSE, autoGainControl |-> FALSE]

\* The audioProcessingMode startRecording reads.  startRecording is memoised
\* with dependencies that never change and audioProcessingMode is not among
\* them, so the instance of the first render stays in use and reads the
\* initial state.
InitialMode == "native"
startRecordingMode == InitialMode

\* a history that drops the newest sample, not the oldest, beyond historyLength
PushHistoryDropsNewest(h, v) ==
  IF Len(h) >= historyLength THEN h ELSE Append(h, v)

\* volumeHistoryRef.current.push(volume); shift() beyond historyLength
PushHistory(h, v) ==
  LET p == Append(h, v) IN IF Len(p) > historyLength THEN Tail(p) ELSE p

\* averageVolume > voiceThreshold
VoiceActive(h) == SumSeq(h) > voiceThreshold * Len(h)

\* ------------------------------------------------- platform object effects
\* ctx: none/open/closed, stream: none/live/stopped, nodes:
\* none/connected/disconnected, rec: none/recording/inactive/failed (inactive
\* after an encoder error), flush: the recorder's final dataavailable + stop
\* task (none, or queued by "stop", by "cleanup" or by an encoder "error"),
\* captured: whether the recorder delivered a non-empty chunk
NoHw == [ctx |-> "none", stream |-> "none", nodes |-> "none",
         rec |-> "none", flush |-> "none", captured |-> FALSE]

\* recorder.stop() when recorder.state is "recording": the recorder turns
\* inactive and its final dataavailable + stop task is queued
StopRecorder(h, r, by) ==
  IF r # 0 /\ h[r].rec = "recording"
  THEN [h EXCEPT ![r].rec = "inactive", ![r].flush = by]
  ELSE h

DisconnectNodes(h, n) ==
  IF n # 0 THEN [h EXCEPT ![n].nodes = "disconnected"] ELSE h

CloseContext(h, c) ==
  IF c # 0 THEN [h EXCEPT ![c].ctx = "closed"] ELSE h

StopTracks(h, s) ==
  IF s # 0 THEN [h EXCEPT ![s].stream = "stopped"] ELSE h

\* what stopRecording and cleanup do to the platform objects the refs name
ReleaseHw(h, c, s, n, r, by) ==
  StopTracks(CloseContext(DisconnectNodes(StopRecorder(h, r, by), n), c), s)

\* An invocation that has returned and whose objects are all released, with
\* no recorder task left to run, can no longer act or be acted on: its
\* objects are garbage and its record reads as NoHw again.
Collect(h, cl) ==
  [k \in DOMAIN h |->
     IF /\ cl[k].pc = "returned"
        /\ h[k].ctx # "open"
        /\ h[k].stream # "live"
        /\ h[k].nodes # "connected"
        /\ h[k].rec # "recording"
        /\ h[k].flush = "none"
     THEN NoHw ELSE h[k]]

\* cancelAnimationFrame(animationFrameRef.current) leaves the ticks the ref
\* does not name scheduled
CancelFrame == /\ animationFrameRef' = "null"
               /\ UNCHANGED rafOther

\* a teardown that returns once it has stopped a running encoder and leaves
\* the remaining resets to the next call
ResetSessionEarlyReturn ==
  IF mediaRecorderRef # 0
  THEN /\ CancelFrame
       /\ isRecording' = FALSE
       /\ mediaRecorderRef' = 0
       /\ UNCHANGED <<currentVolume, isVoiceDetected, volumeHistoryRef,
                      audioData, audioNodesRef, audioContextRef, mediaStreamRef>>
  ELSE /\ CancelFrame
       /\ isRecording' = FALSE
       /\ currentVolume' = 0
       /\ isVoiceDetected' = FALSE
       /\ volumeHistoryRef' = <<>>
       /\ audioData' = ZeroFrame
       /\ audioNodesRef' = 0
       /\ audioContextRef' = 0
       /\ mediaStreamRef' = 0
       /\ mediaRecorderRef' = 0

\* the part of stopRecording / cleanup that resets refs and analysis state
ResetSession ==
  /\ CancelFrame
  /\ isRecording' = FALSE
  /\ currentVolume' = 0
  /\ isVoiceDetected' = FALSE
  /\ volumeHistoryRef' = <<>>
  /\ audioData' = ZeroFrame
  /\ audioNodesRef' = 0
  /\ audioContextRef' = 0
  /\ mediaStreamRef' = 0
  /\ mediaRecorderRef' = 0

\* cleanup() as startRecording's catch block calls it, with the refs as the
\* failing invocation left them (c, s, n, r), the platform objects h and
\* the invocations cl
Cleanup(h, c, s, n, r, cl) ==
  /\ hw' = Collect(ReleaseHw(h, c, s, n, r, "cleanup"), cl)
  /\ ResetSession

\* the catch block of startRecording for invocation k: setError, cleanup()
StartRecordingCatch(k, h, c, s, n, r, msg) ==
  /\ error' = msg
  /\ Cleanup(h, c, s, n, r, [call EXCEPT ![k].pc = "returned", ![k].stopped = FALSE])
  /\ call' = [call EXCEPT ![k].pc = "returned", ![k].stopped = FALSE]
  /\ teardowns' = Min2(teardowns + 1)
  /\ UNCHANGED <<recordedAudio, audioProcessingMode, recordedChunksRef, supported>>

\* the catch block reached by a throw that is not a getUserMedia rejection
FailStart(k, h, c, s, n, r, msg) ==
  /\ StartRecordingCatch(k, h, c, s, n, r, msg)
  /\ UNCHANGED lastMicRejection

NoRejection == [isError |-> FALSE, name |-> "none"]

\* the values getUserMedia rejects with: DOMExceptions, which are Errors, and
\* a value that is not an instance of Error
MicRejections ==
  {[isError |-> TRUE, name |-> "NotAllowedError"],
   [isError |-> TRUE, name |-> "NotFoundError"],
   [isError |-> TRUE, name |-> "NotReadableError"],
   [isError |-> FALSE, name |-> "OverconstrainedError"]}

\* the message of the Error the catch block of requestMicrophoneAccess throws
MicErrorMessage(err) ==
  IF err.isError
  THEN IF err.name = "NotAllowedError" THEN ErrPermissionDenied
       ELSE IF err.name = "NotFoundError" THEN ErrDeviceNotFound
       ELSE ErrAcquisitionFailed
  ELSE ErrUnknownMic

\* the invocation issues getUserMedia with the constraints of the mode it reads
RequestMic(k) ==
  [call EXCEPT ![k].pc = "mic", ![k].constraints = ConstraintsFor(startRecordingMode)]

\* ------------------------------------------------------------------- Init
\* pc: unused, resume1 / wait / resume2 (suspended in initializeAudioContext),
\* mic (suspended in getUserMedia), returned; constraints: what the
\* invocation asked getUserMedia for; stopped: stopRecording() ran while the
\* invocation was suspended
NoCall == [pc |-> "unused", constraints |-> ConstraintsFor("native"),
           stopped |-> FALSE]

\* how many Audio elements playRecording may make
MaxPlays == 2
Plays == 1 .. MaxPlays

PlaybackInit ==
  /\ isPlaying = FALSE
  /\ playbackAudioRef = 0
  /\ audio = [e \in Plays |-> "unused"]

VoiceInit ==
  /\ PlaybackInit
  /\ isRecording = FALSE
  /\ hasPermission = "null"
  /\ recordedAudio = NullBlob
  /\ error = ErrNone
  /\ audioProcessingMode = InitialMode
  /\ currentVolume = 0
  /\ isVoiceDetected = FALSE
  /\ audioData = ZeroFrame
  /\ audioContextRef = 0
  /\ mediaStreamRef = 0
  /\ mediaRecorderRef = 0
  /\ audioNodesRef = 0
  /\ animationFrameRef = "null"
  /\ recordedChunksRef = <<>>
  /\ volumeHistoryRef = <<>>
  /\ call = [k \in Calls |-> NoCall]
  /\ hw = [k \in Calls |-> NoHw]
  /\ rafOther = 0
  /\ supported \in BOOLEAN
  /\ lastMicRejection = NoRejection
  /\ teardowns = 0

\* ---------------------------------------------------------------- actions
NextCall == Cardinality({k \in Calls : call[k].pc # "unused"}) + 1

\* startRecording() up to its first suspension
StartRecording ==
  /\ NextCall \in Calls
  /\ LET k == NextCall
     IN \/ /\ ~supported
           /\ FailStart(k, hw, audioContextRef, mediaStreamRef, audioNodesRef,
                        mediaRecorderRef, ErrUnsupported)
           /\ UNCHANGED hasPermission
        \/ /\ supported
           \* new AudioContextClass() throws
           /\ FailStart(k, hw, audioContextRef, mediaStreamRef, audioNodesRef,
                        mediaRecorderRef, ErrPlatform)
           /\ UNCHANGED hasPermission
        \/ /\ supported
           \* the context is created running: initializeAudioContext returns
           \* and the microphone is requested
           /\ hw' = [hw EXCEPT ![k].ctx = "open"]
           /\ audioContextRef' = k
           /\ call' = RequestMic(k)
           /\ error' = ErrNone
           /\ teardowns' = 0
           /\ UNCHANGED <<isRecording, hasPermission, recordedAudio,
                          audioProcessingMode, currentVolume, isVoiceDetected,
                          audioData, mediaStreamRef, mediaRecorderRef,
                          audioNodesRef, animationFrameRef, recordedChunksRef,
                          volumeHistoryRef, rafOther, supported, lastMicRejection>>
        \/ /\ supported
           \* the context is created suspended: await audioContext.resume()
           /\ hw' = [hw EXCEPT ![k].ctx = "open"]
           /\ call' = [call EXCEPT ![k].pc = "resume1"]
           /\ error' = ErrNone
           /\ teardowns' = 0
           /\ UNCHANGED <<isRecording, hasPermission, recordedAudio,
                          audioProcessingMode, currentVolume, isVoiceDetected,
                          audioData, audioContextRef, mediaStreamRef,
                          mediaRecorderRef, audioNodesRef, animationFrameRef,
                          recordedChunksRef, volumeHistoryRef, rafOther, supported, lastMicRejection>>

\* analyzeAudio(): called by startRecording (fired = "call") or as the
\* animation-frame callback the ref names (fired = "ref") or another
\* scheduled one (fired = "other"); n, c are the refs it reads, v the volume
AnalyzeAudio(n, c, v, fired) ==
  IF n = 0 \/ c = 0
  THEN /\ UNCHANGED <<currentVolume, isVoiceDetected, volumeHistoryRef, audioData>>
       /\ animationFrameRef' = IF fired = "ref" THEN "stale" ELSE animationFrameRef
       /\ rafOther' = IF fired = "other" THEN rafOther - 1 ELSE rafOther
  ELSE /\ currentVolume' = v
       /\ volumeHistoryRef' = PushHistory(volumeHistoryRef, v)
       /\ isVoiceDetected' = VoiceActive(PushHistory(volumeHistoryRef, v))
       /\ audioData' = [amplitude |-> v]
       /\ animationFrameRef' = "live"
       /\ rafOther' = IF fired = "ref" THEN rafOther
                      ELSE (IF fired = "other" THEN rafOther - 1 ELSE rafOther)
                           + (IF animationFrameRef = "live" THEN 1 ELSE 0)

\* the first audioContext.resume() of initializeAudioContext settles
ResumeSettled(k) ==
  /\ call[k].pc = "resume1"
  /\ \/ /\ FailStart(k, hw, audioContextRef, mediaStreamRef, audioNodesRef,
                     mediaRecorderRef, ErrPlatform)
        /\ UNCHANGED hasPermission
     \/ /\ \/ /\ audioContextRef' = k
              /\ call' = RequestMic(k)
           \/ /\ call' = [call EXCEPT ![k].pc = "wait"]
              /\ UNCHANGED audioContextRef
        /\ teardowns' = 0
        /\ UNCHANGED <<isRecording, hasPermission, recordedAudio, error,
                       audioProcessingMode, currentVolume, isVoiceDetected,
                       audioData, mediaStreamRef, mediaRecorderRef,
                       audioNodesRef, animationFrameRef, recordedChunksRef,
                       volumeHistoryRef, hw, rafOther, supported, lastMicRejection>>

\* the 100 ms back-off of initializeAudioContext elapses
BackoffElapsed(k) ==
  /\ call[k].pc = "wait"
  /\ \/ /\ audioContextRef' = k
        /\ call' = RequestMic(k)
     \/ /\ call' = [call EXCEPT ![k].pc = "resume2"]
        /\ UNCHANGED audioContextRef
  /\ teardowns' = 0
  /\ UNCHANGED <<isRecording, hasPermission, recordedAudio, error,
                 audioProcessingMode, currentVolume, isVoiceDetected,
                 audioData, mediaStreamRef, mediaRecorderRef,
                 audioNodesRef, animationFrameRef, recordedChunksRef,
                 volumeHistoryRef, hw, rafOther, supported, lastMicRejection>>

\* the second audioContext.resume() settles
SecondResumeSettled(k) ==
  /\ call[k].pc = "resume2"
  /\ \/ /\ FailStart(k, hw, audioContextRef, mediaStreamRef, audioNodesRef,
                     mediaRecorderRef, ErrPlatform)
        /\ UNCHANGED hasPermission
     \/ /\ audioContextRef' = k
        /\ call' = RequestMic(k)
        /\ teardowns' = 0
        /\ UNCHANGED <<isRecording, hasPermission, recordedAudio, error,
                       audioProcessingMode, currentVolume, isVoiceDetected,
                       audioData, mediaStreamRef, mediaRecorderRef,
                       audioNodesRef, animationFrameRef, recordedChunksRef,
                       volumeHistoryRef, hw, rafOther, supported, lastMicRejection>>

\* getUserMedia rejects: requestMicrophoneAccess sets hasPermission false and
\* rethrows, startRecording's catch reports and cleans up
MicRejected(k) ==
  /\ call[k].pc = "mic"
  /\ hasPermission' = "false"
  /\ \E err \in MicRejections :
       /\ lastMicRejection' = err
       /\ StartRecordingCatch(k, hw, audioContextRef, mediaStreamRef,
                              audioNodesRef, mediaRecorderRef,
                              MicErrorMessage(err))

\* getUserMedia resolves: the rest of startRecording runs to its end
MicGranted(k) ==
  /\ call[k].pc = "mic"
  /\ hasPermission' = "true"
  /\ LET h1 == [hw EXCEPT ![k].stream = "live"]
         h2 == [h1 EXCEPT ![k].nodes = "connected"]
         h3 == [h2 EXCEPT ![k].rec = "recording"]
     IN \/ /\ hw[k].ctx = "closed"
           \* createMediaStreamSource on a closed context throws
           /\ FailStart(k, h1, audioContextRef, k, audioNodesRef,
                        mediaRecorderRef, ErrPlatform)
        \/ \* new MediaRecorder(...) throws
           FailStart(k, h2, audioContextRef, k, k, mediaRecorderRef, ErrPlatform)
        \/ /\ hw' = h3
           /\ mediaStreamRef' = k
           /\ audioNodesRef' = k
           /\ recordedChunksRef' = <<>>
           /\ mediaRecorderRef' = k
           /\ isRecording' = TRUE
           /\ \E v \in Volumes : AnalyzeAudio(k, audioContextRef, v, "call")
           /\ call' = [call EXCEPT ![k].pc = "returned", ![k].stopped = FALSE]
           /\ teardowns' = 0
           /\ UNCHANGED <<recordedAudio, error, audioProcessingMode,
                          audioContextRef, supported, lastMicRejection>>

\* an animation frame fires and runs analyzeAudio
AnalysisTick ==
  /\ \/ /\ animationFrameRef = "live"
        /\ \E v \in Volumes :
             AnalyzeAudio(audioNodesRef, audioContextRef, v, "ref")
     \/ /\ rafOther > 0
        /\ \E v \in Volumes :
             AnalyzeAudio(audioNodesRef, audioContextRef, v, "other")
  /\ (audioNodesRef # 0 /\ audioContextRef # 0) => Len(volumeHistoryRef) < MaxTicks
  /\ teardowns' = 0
  /\ UNCHANGED <<isRecording, hasPermission, recordedAudio, error,
                 audioProcessingMode, audioContextRef, mediaStreamRef,
                 mediaRecorderRef, audioNodesRef, recordedChunksRef,
                 call, hw, supported, lastMicRejection>>

\* mediaRecorder.ondataavailable for a chunk of the 100 ms time slice
DataAvailable(k) ==
  /\ hw[k].rec = "recording"
  /\ \/ \* event.data.size = 0
        UNCHANGED <<recordedChunksRef, hw>>
     \/ /\ Len(recordedChunksRef) < MaxChunks
        /\ recordedChunksRef' = Append(recordedChunksRef, k)
        /\ hw' = [hw EXCEPT ![k].captured = TRUE]
  /\ teardowns' = 0
  /\ UNCHANGED <<isRecording, hasPermission, recordedAudio, error,
                 audioProcessingMode, currentVolume, isVoiceDetected,
                 audioData, audioContextRef, mediaStreamRef, mediaRecorderRef,
                 audioNodesRef, animationFrameRef, volumeHistoryRef,
                 call, rafOther, supported, lastMicRejection>>

\* mediaRecorder.onstop, run on the chunk list as the final dataavailable
\* left it
OnStop(chunks) ==
  IF Len(chunks) > 0
  THEN /\ recordedAudio' = [isNull |-> FALSE, chunks |-> chunks]
       /\ UNCHANGED error
  ELSE /\ error' = ErrNoAudioCaptured
       /\ UNCHANGED recordedAudio

\* the task recorder.stop() queued: the final dataavailable, then onstop
RecorderStopTask(k) ==
  /\ hw[k].flush \in {"stop", "cleanup", "error"}
  /\ hw' = Collect([hw EXCEPT ![k].flush = "none"], call)
  /\ \/ \* the final event.data.size = 0
        /\ recordedChunksRef' = recordedChunksRef
        /\ OnStop(recordedChunksRef)
     \/ /\ Len(recordedChunksRef) < MaxChunks
        /\ recordedChunksRef' = Append(recordedChunksRef, k)
        /\ OnStop(Append(recordedChunksRef, k))
  /\ teardowns' = 0
  /\ UNCHANGED <<isRecording, hasPermission, audioProcessingMode,
                 currentVolume, isVoiceDetected, audioData, audioContextRef,
                 mediaStreamRef, mediaRecorderRef, audioNodesRef,
                 animationFrameRef, volumeHistoryRef, call, rafOther, supported, lastMicRejection>>

\* the encoder of invocation k fails while recording: the recorder turns
\* inactive, mediaRecorder.onerror runs, and the final dataavailable + stop
\* task is queued
RecorderError(k) ==
  /\ hw[k].rec = "recording"
  /\ hw' = [hw EXCEPT ![k].rec = "failed", ![k].flush = "error"]
  /\ error' = ErrRecordingFailed
  /\ teardowns' = 0
  /\ UNCHANGED <<isRecording, hasPermission, recordedAudio,
                 audioProcessingMode, currentVolume, isVoiceDetected,
                 audioData, audioContextRef, mediaStreamRef, mediaRecorderRef,
                 audioNodesRef, animationFrameRef, recordedChunksRef,
                 volumeHistoryRef, call, rafOther, supported,
                 lastMicRejection>>

\* startRecording invocations suspended at an await
Suspended(c) == {k \in Calls : c[k].pc \in {"resume1", "wait", "resume2", "mic"}}

\* stopRecording()
StopRecording ==
  /\ hw' = Collect(ReleaseHw(hw, audioContextRef, mediaStreamRef,
                              audioNodesRef, mediaRecorderRef, "stop"), call)
  /\ ResetSession
  /\ call' = [k \in Calls |->
                IF k \in Suspended(call) THEN [call[k] EXCEPT !.stopped = TRUE]
                ELSE call[k]]
  /\ teardowns' = Min2(teardowns + 1)
  /\ UNCHANGED <<hasPermission, recordedAudio, error, audioProcessingMode,
                 recordedChunksRef, supported, lastMicRejection>>

\* ---- playback of the recording, and clearRecording
ErrPlaybackFailed == "Playback failed: message"

\* the recording lifecycle variables playback leaves alone
captureVars == <<isRecording, hasPermission, audioProcessingMode,
                 currentVolume, isVoiceDetected, audioData, audioContextRef,
                 mediaStreamRef, mediaRecorderRef, audioNodesRef,
                 animationFrameRef, volumeHistoryRef, call, hw, rafOther,
                 supported, lastMicRejection>>

NextPlay == Cardinality({e \in Plays : audio[e] # "unused"}) + 1

\* playRecording() when it passes its guard: a new Audio element is made,
\* stored in playbackAudioRef and asked to play
PlayRecording ==
  /\ ~recordedAudio.isNull
  /\ ~isPlaying
  /\ NextPlay \in Plays
  /\ audio' = [audio EXCEPT ![NextPlay] = "starting"]
  /\ playbackAudioRef' = NextPlay
  /\ teardowns' = 0
  /\ UNCHANGED <<isPlaying, recordedAudio, recordedChunksRef, error,
                 captureVars>>

\* the play event of element e: audio.onplay
OnPlay(e) ==
  /\ audio[e] = "starting"
  /\ audio' = [audio EXCEPT ![e] = "playing"]
  /\ isPlaying' = TRUE
  /\ teardowns' = 0
  /\ UNCHANGED <<playbackAudioRef, recordedAudio, recordedChunksRef, error,
                 captureVars>>

\* element e reaches the end of the recording: audio.onended
OnEnded(e) ==
  /\ audio[e] = "playing"
  /\ audio' = [audio EXCEPT ![e] = "ended"]
  /\ isPlaying' = FALSE
  /\ teardowns' = 0
  /\ UNCHANGED <<playbackAudioRef, recordedAudio, recordedChunksRef, error,
                 captureVars>>

\* the promise of audio.play() rejects, because the element cannot play or
\* because it was paused before it began: the catch handler
PlayRejected(e) ==
  /\ audio[e] \in {"starting", "aborted"}
  /\ audio' = [audio EXCEPT ![e] = IF audio[e] = "aborted" THEN "paused"
                                   ELSE "failed"]
  /\ error' = ErrPlaybackFailed
  /\ isPlaying' = FALSE
  /\ teardowns' = 0
  /\ UNCHANGED <<playbackAudioRef, recordedAudio, recordedChunksRef,
                 captureVars>>

\* audio.pause() on an element in state st
Pause(st) ==
  CASE st = "playing" -> "paused"
    [] st = "starting" -> "aborted"
    [] OTHER -> st

\* the body of stopPlayback()
StopPlaybackBody ==
  IF playbackAudioRef # 0 /\ isPlaying
  THEN /\ audio' = [audio EXCEPT ![playbackAudioRef] = Pause(@)]
       /\ isPlaying' = FALSE
       /\ UNCHANGED playbackAudioRef
  ELSE UNCHANGED playbackVars

\* stopPlayback()
StopPlayback ==
  /\ isPlaying
  /\ StopPlaybackBody
  /\ teardowns' = 0
  /\ UNCHANGED <<recordedAudio, recordedChunksRef, error, captureVars>>

\* clearRecording()
ClearRecording ==
  /\ recordedAudio' = NullBlob
  /\ recordedChunksRef' = <<>>
  /\ IF isPlaying THEN StopPlaybackBody ELSE UNCHANGED playbackVars
  /\ teardowns' = 0
  /\ UNCHANGED <<error, captureVars>>

\* setAudioProcessingMode(mode)
SetAudioProcessingMode(mode) ==
  /\ audioProcessingMode' = mode
  /\ teardowns' = 0
  /\ UNCHANGED <<isRecording, hasPermission, recordedAudio, error,
                 currentVolume, isVoiceDetected, audioData, audioContextRef,
                 mediaStreamRef, mediaRecorderRef, audioNodesRef,
                 animationFrameRef, recordedChunksRef, volumeHistoryRef,
                 call, hw, rafOther, supported, lastMicRejection>>

\* ===================================================== useAudioReactiveParticles
\* Numbers are fixed point in thousandths (0.03 is 30); all numbers of the
\* model are non-negative and NaN stands for the IEEE not-a-number.
NaN == -1

\* durations in milliseconds
PreLoadingMs == 1500
PostLoadingMs == 2000
ManualLoadingMs == 3000
CompletionDelayMs == 500

\* cap on the loading sequences whose timers are pending at once
MaxLoadings == 2

\* the time the clock advances in one step
TimeStep == CompletionDelayMs

\* frequencyData: a Uint8Array of len bins that all hold the byte b
Spectrum(len, b) == [length |-> len, bin |-> IF len = 0 THEN 0 ELSE b]
\* frequencyData[i]
BinAt(data, i) == data.bin
\* frequencyBinCount of the analyser useVoice builds (fftSize 1024)
AppSpectrumBins == 512

SilentFrame == [amplitude |-> 0, bassLevel |-> 0, midLevel |-> 0,
                trebleLevel |-> 0, frequencyData |-> Spectrum(AppSpectrumBins, 0)]
LoudFrame == [amplitude |-> 500, bassLevel |-> 500, midLevel |-> 500,
              trebleLevel |-> 500, frequencyData |-> Spectrum(AppSpectrumBins, 255)]

\* the frames the analysis loop delivers in the phase machine
AppFrames == {SilentFrame, LoudFrame}

LoadingTypes == {"processing", "analyzing", "generating"}

InitialParams == [noiseIntensity |-> 30, pulseAmplitude |-> 20,
                  torusMode |-> FALSE, torusRadius |-> 1000,
                  torusSpeed |-> 1000, torusMinorRadius |-> 300]

\* ---- JavaScript arithmetic on the fixed-point numbers
\* x * (tenths / 10)
Times(x, tenths) == IF x = NaN THEN NaN ELSE (x * tenths) \div 10
Plus(a, b) == IF a = NaN \/ b = NaN THEN NaN ELSE a + b
MathMax(a, b) == IF a = NaN \/ b = NaN THEN NaN ELSE IF a >= b THEN a ELSE b
MathMin(a, b) == IF a = NaN \/ b = NaN THEN NaN ELSE IF a <= b THEN a ELSE b

\* subBassLevel += frequencyData[i] / 255 for the first n bins
RECURSIVE SumBins(_, _)
SumBins(data, n) ==
  IF n = 0 THEN 0 ELSE SumBins(data, n - 1) + (BinAt(data, n) * 1000) \div 255

\* subBassLevel /= subBassRange: 0 / 0 is NaN
Divide(sum, n) == IF n = 0 THEN NaN ELSE sum \div n

\* Math.floor(frequencyBins * 0.02)
SubBassRange(frequencyBins) == (frequencyBins * 2) \div 100

\* the mapping of a feature frame to target parameters (processAudioData,
\* "ACTUAL RECORDING")
AudioTargets(base, frame) ==
  LET subBassRange == SubBassRange(frame.frequencyData.length)
      subBassLevel == Divide(SumBins(frame.frequencyData, subBassRange), subBassRange)
      enhancedBass == MathMax(frame.bassLevel, Times(subBassLevel, 12))
  IN [noiseIntensity |->
        MathMin(1000, Plus(Plus(base.noiseIntensity, Times(frame.amplitude, 7)),
                           Times(frame.midLevel, 5))),
      pulseAmplitude |->
        MathMin(600, Plus(Plus(base.pulseAmplitude, Times(enhancedBass, 6)),
                          Times(frame.amplitude, 2))),
      torusMode |-> base.torusMode,
      torusRadius |->
        MathMax(500, MathMin(2500, Plus(Plus(base.torusRadius,
                                             Times(frame.trebleLevel, 10)),
                                        Times(frame.amplitude, 3)))),
      torusSpeed |->
        MathMax(100, MathMin(4000, Plus(Plus(base.torusSpeed,
                                             Times(frame.amplitude, 25)),
                                        Times(enhancedBass, 8)))),
      torusMinorRadius |->
        MathMax(100, MathMin(900, Plus(Plus(base.torusMinorRadius,
                                            Times(frame.midLevel, 4)),
                                       Times(frame.trebleLevel, 2))))]

\* ---- the hook's state after the first render
ParticleInit ==
  /\ baseParams = InitialParams
  /\ loadingState = [isLoading |-> FALSE, progress |-> 0, type |-> "idle"]
  /\ recordingPhase = "idle"
  /\ targetParamsRef = InitialParams
  /\ wasRecordingRef = FALSE
  /\ dataToSend = [isRecording |-> FALSE, frame |-> SilentFrame]
  /\ effectPending = FALSE
  /\ loadings = <<>>
  /\ mounted = TRUE

\* the loading sequences a manual trigger started
ManualLoadings == {i \in DOMAIN loadings : loadings[i].onComplete = "none"}

\* a simulateLoading that starts the sequence without switching torus mode on
SimulateLoadingKeepsTorusMode(type, duration, onComplete) ==
  /\ UNCHANGED baseParams
  /\ loadingState' = [isLoading |-> TRUE, progress |-> 0, type |-> type]
  /\ loadings' = Append(loadings, [onComplete |-> onComplete, duration |-> duration,
                                   elapsed |-> 0, stage |-> "ramp", wait |-> 0])

\* simulateLoading(type, duration, onComplete) up to its first setTimeout:
\* torus mode on, loading state on, updateProgress() at elapsed 0
SimulateLoading(type, duration, onComplete) ==
  /\ baseParams' = [baseParams EXCEPT !.torusMode = TRUE]
  /\ loadingState' = [isLoading |-> TRUE, progress |-> 0, type |-> type]
  /\ loadings' = Append(loadings, [onComplete |-> onComplete, duration |-> duration,
                                   elapsed |-> 0, stage |-> "ramp", wait |-> 0])

\* a gate that looks at the phase only
LoadingGatePhasesOnly ==
  \/ recordingPhase = "pre-recording-loading"
  \/ recordingPhase = "post-recording-loading"

\* "Skip audio processing during loading phases"
LoadingGate ==
  \/ recordingPhase = "pre-recording-loading"
  \/ recordingPhase = "post-recording-loading"
  \/ loadingState.isLoading

\* a processAudioData whose stop branch does not look at the phase
ProcessAudioDataIgnoresPhase(data) ==
  LET currentlyRecording == data.isRecording
      wasRecording == wasRecordingRef
  IN IF ~wasRecording /\ currentlyRecording /\ recordingPhase = "idle"
     THEN /\ recordingPhase' = "pre-recording-loading"
          /\ SimulateLoading("analyzing", PreLoadingMs, "recording")
          /\ wasRecordingRef' = TRUE
          /\ UNCHANGED targetParamsRef
     ELSE IF wasRecording /\ ~currentlyRecording
     THEN /\ recordingPhase' = "post-recording-loading"
          /\ SimulateLoading("processing", PostLoadingMs, "idle")
          /\ UNCHANGED <<wasRecordingRef, targetParamsRef>>
     ELSE /\ targetParamsRef' =
               IF LoadingGate THEN baseParams
               ELSE IF recordingPhase # "recording" \/ ~currentlyRecording
               THEN baseParams
               ELSE AudioTargets(baseParams, data.frame)
          /\ UNCHANGED <<recordingPhase, baseParams, loadingState, loadings,
                         wasRecordingRef>>

\* processAudioData(audioData)
ProcessAudioData(data) ==
  LET currentlyRecording == data.isRecording
      wasRecording == wasRecordingRef
  IN IF ~wasRecording /\ currentlyRecording /\ recordingPhase = "idle"
     THEN /\ recordingPhase' = "pre-recording-loading"
          /\ SimulateLoading("analyzing", PreLoadingMs, "recording")
          /\ wasRecordingRef' = TRUE
          /\ UNCHANGED targetParamsRef
     ELSE IF wasRecording /\ ~currentlyRecording /\ recordingPhase = "recording"
     THEN /\ recordingPhase' = "post-recording-loading"
          /\ SimulateLoading("processing", PostLoadingMs, "idle")
          /\ UNCHANGED <<wasRecordingRef, targetParamsRef>>
     ELSE /\ targetParamsRef' =
               IF LoadingGate THEN baseParams
               ELSE IF recordingPhase # "recording" \/ ~currentlyRecording
               THEN baseParams
               ELSE AudioTargets(baseParams, data.frame)
          /\ UNCHANGED <<recordingPhase, baseParams, loadingState, loadings,
                         wasRecordingRef>>

\* VoiceRecorder's effect: onAudioData({...audioData, isRecording}) runs after
\* every render in which audioData, isRecording or the callback (that is
\* baseParams, loadingState.isLoading or recordingPhase) changed
RunEffect ==
  /\ effectPending
  /\ ProcessAudioData(dataToSend)
  /\ effectPending' = (recordingPhase' # recordingPhase)
  /\ UNCHANGED dataToSend

\* useVoice sets isRecording and delivers the first frame of the session
RecordingStarts ==
  /\ ~effectPending
  /\ ~dataToSend.isRecording
  /\ \E f \in AppFrames : dataToSend' = [isRecording |-> TRUE, frame |-> f]
  /\ effectPending' = TRUE
  /\ UNCHANGED <<baseParams, loadingState, recordingPhase, targetParamsRef,
                 wasRecordingRef, loadings>>

\* useVoice clears isRecording and resets audioData to the zero frame
RecordingStops ==
  /\ ~effectPending
  /\ dataToSend.isRecording
  /\ dataToSend' = [isRecording |-> FALSE, frame |-> SilentFrame]
  /\ effectPending' = TRUE
  /\ UNCHANGED <<baseParams, loadingState, recordingPhase, targetParamsRef,
                 wasRecordingRef, loadings>>

\* a frame whose arrival also switches torus mode to whether it carries bass
AudioFrameSetsTorusMode(f) ==
  /\ ~effectPending
  /\ dataToSend.isRecording
  /\ dataToSend' = [dataToSend EXCEPT !.frame = f]
  /\ baseParams' = [baseParams EXCEPT !.torusMode = (f.bassLevel > 0)]
  /\ effectPending' = TRUE
  /\ UNCHANGED <<loadingState, recordingPhase, targetParamsRef,
                 wasRecordingRef, loadings>>

\* an analysis tick of useVoice publishes a new audioData
AudioFrame(f) ==
  /\ ~effectPending
  /\ dataToSend.isRecording
  /\ dataToSend' = [dataToSend EXCEPT !.frame = f]
  /\ effectPending' = TRUE
  /\ UNCHANGED <<baseParams, loadingState, recordingPhase, targetParamsRef,
                 wasRecordingRef, loadings>>

\* setTorusMode(value)
SetTorusMode(value) ==
  /\ ~effectPending
  /\ baseParams' = [baseParams EXCEPT !.torusMode = value]
  /\ effectPending' = TRUE
  /\ UNCHANGED <<loadingState, recordingPhase, targetParamsRef,
                 wasRecordingRef, dataToSend, loadings>>

\* setNoiseIntensity(value)
SetNoiseIntensity(value) ==
  /\ ~effectPending
  /\ baseParams' = [baseParams EXCEPT !.noiseIntensity = value]
  /\ effectPending' = TRUE
  /\ UNCHANGED <<loadingState, recordingPhase, targetParamsRef,
                 wasRecordingRef, dataToSend, loadings>>

\* triggerLoading(type)
TriggerLoading(type) ==
  /\ ~effectPending
  /\ ~loadingState.isLoading
  /\ Cardinality(ManualLoadings) < MaxLoadings - 1
  /\ SimulateLoading(type, ManualLoadingMs, "none")
  /\ effectPending' = TRUE
  /\ UNCHANGED <<recordingPhase, targetParamsRef, wasRecordingRef, dataToSend>>

\* time passes for every pending timer
Tick ==
  /\ loadings' =
       [i \in DOMAIN loadings |->
          IF loadings[i].stage = "ramp"
          THEN [loadings[i] EXCEPT !.elapsed =
                  IF @ + TimeStep > loadings[i].duration
                  THEN loadings[i].duration ELSE @ + TimeStep]
          ELSE [loadings[i] EXCEPT !.wait =
                  IF @ + TimeStep > CompletionDelayMs
                  THEN CompletionDelayMs ELSE @ + TimeStep]]
  /\ UNCHANGED <<baseParams, loadingState, recordingPhase, targetParamsRef,
                 wasRecordingRef, dataToSend, effectPending>>

\* updateProgress() of loading sequence i, run by its 50 ms timeout
UpdateProgress(i) ==
  /\ ~effectPending
  /\ i \in DOMAIN loadings
  /\ loadings[i].stage = "ramp"
  /\ IF loadings[i].elapsed < loadings[i].duration
     THEN /\ loadingState' =
               [loadingState EXCEPT
                  !.progress = (loadings[i].elapsed * 100) \div loadings[i].duration]
          /\ UNCHANGED <<loadings, effectPending>>
     ELSE /\ loadingState' = [isLoading |-> FALSE, progress |-> 100, type |-> "idle"]
          /\ loadings' = [loadings EXCEPT ![i].stage = "defer"]
          /\ effectPending' = loadingState.isLoading
  /\ UNCHANGED <<baseParams, recordingPhase, targetParamsRef, wasRecordingRef,
                 dataToSend>>

\* s without its i-th element
RemoveAt(s, i) == [j \in 1 .. Len(s) - 1 |-> IF j < i THEN s[j] ELSE s[j + 1]]

\* a completion that runs onComplete and leaves torus mode as it is
CompletionTimeoutKeepsTorusMode(i) ==
  /\ ~effectPending
  /\ i \in DOMAIN loadings
  /\ loadings[i].stage = "defer"
  /\ loadings[i].wait >= CompletionDelayMs
  /\ UNCHANGED baseParams
  /\ recordingPhase' = IF loadings[i].onComplete = "none" THEN recordingPhase
                       ELSE loadings[i].onComplete
  /\ wasRecordingRef' = IF loadings[i].onComplete = "idle" THEN FALSE
                        ELSE wasRecordingRef
  /\ loadings' = RemoveAt(loadings, i)
  /\ effectPending' = TRUE
  /\ UNCHANGED <<loadingState, targetParamsRef, dataToSend>>

\* a completion whose post-recording callback leaves wasRecordingRef set
CompletionTimeoutKeepsWasRecording(i) ==
  /\ ~effectPending
  /\ i \in DOMAIN loadings
  /\ loadings[i].stage = "defer"
  /\ loadings[i].wait >= CompletionDelayMs
  /\ baseParams' = [baseParams EXCEPT !.torusMode = FALSE]
  /\ recordingPhase' = IF loadings[i].onComplete = "none" THEN recordingPhase
                       ELSE loadings[i].onComplete
  /\ UNCHANGED wasRecordingRef
  /\ loadings' = RemoveAt(loadings, i)
  /\ effectPending' = TRUE
  /\ UNCHANGED <<loadingState, targetParamsRef, dataToSend>>

\* the 500 ms timeout of loading sequence i: torus mode off, then onComplete
CompletionTimeout(i) ==
  /\ ~effectPending
  /\ i \in DOMAIN loadings
  /\ loadings[i].stage = "defer"
  /\ loadings[i].wait >= CompletionDelayMs
  /\ baseParams' = [baseParams EXCEPT !.torusMode = FALSE]
  /\ recordingPhase' = IF loadings[i].onComplete = "none" THEN recordingPhase
                       ELSE loadings[i].onComplete
  /\ wasRecordingRef' = IF loadings[i].onComplete = "idle" THEN FALSE
                        ELSE wasRecordingRef
  /\ loadings' = RemoveAt(loadings, i)
  /\ effectPending' = TRUE
  /\ UNCHANGED <<loadingState, targetParamsRef, dataToSend>>

\* ---- the mapping as a pure function: inputs
Levels == {0, 500, 1000}
SpectrumLengths == {0, 32, 50, AppSpectrumBins}
MapFrames ==
  {[amplitude |-> a, bassLevel |-> b, midLevel |-> m, trebleLevel |-> t,
    frequencyData |-> Spectrum(n, v)] :
     a \in Levels, b \in Levels, m \in {0, 1000}, t \in {0, 1000},
     n \in SpectrumLengths, v \in {0, 255}}
MapBaseParams ==
  {[noiseIntensity |-> ni, pulseAmplitude |-> pa, torusMode |-> tm,
    torusRadius |-> tr, torusSpeed |-> ts, torusMinorRadius |-> tmr] :
     ni \in {0, 100}, pa \in {0, 100}, tm \in BOOLEAN, tr \in {500, 2000},
     ts \in {100, 3000}, tmr \in {100, 800}}

\* the Recording phase with a frame waiting to be processed
MapInputs ==
  /\ baseParams \in MapBaseParams
  /\ loadingState = [isLoading |-> FALSE, progress |-> 100, type |-> "idle"]
  /\ recordingPhase = "recording"
  /\ targetParamsRef = baseParams
  /\ wasRecordingRef = TRUE
  /\ \E f \in MapFrames : dataToSend = [isRecording |-> TRUE, frame |-> f]
  /\ effectPending = TRUE
  /\ loadings = <<>>
  /\ mounted = TRUE

\* the component that uses the hook unmounts: the only cleanup the hook
\* registers cancels the animation frame of the smoothing loop; the timers
\* simulateLoading armed are not cleared
Unmount ==
  /\ mounted
  /\ mounted' = FALSE
  /\ UNCHANGED particleVars

\* ========================================================= specifications
\* no pure function is being applied
NoResult == [done |-> FALSE]

\* cap on the number of getRecordedAudioAsWav invocations
MaxExports == 3

Exports == 1 .. MaxExports

\* pc: unused, reading (suspended in recordedAudio.arrayBuffer()), decoding
\* (suspended in decodeAudioData), returned; tempAudioContext: none / open /
\* closed; result: what the promise resolved with; caught: what the catch
\* block caught
NoWavCall == [pc |-> "unused", tempAudioContext |-> "none", result |-> "none",
              caught |-> "none"]

NoWavCalls == [k \in Exports |-> NoWavCall]
PureIdle ==
  /\ fnArgs = <<>>
  /\ fnResult = NoResult
  /\ wavCall = NoWavCalls

\* the voice variables while only the particle hook runs
VoiceIdle ==
  /\ VoiceInit
  /\ supported

Init == VoiceInit /\ ParticleInit /\ PureIdle

Next ==
  \/ StartRecording /\ UNCHANGED nonVoiceVars
  \/ \E k \in Calls : ResumeSettled(k) /\ UNCHANGED nonVoiceVars
  \/ \E k \in Calls : BackoffElapsed(k) /\ UNCHANGED nonVoiceVars
  \/ \E k \in Calls : SecondResumeSettled(k) /\ UNCHANGED nonVoiceVars
  \/ \E k \in Calls : MicRejected(k) /\ UNCHANGED nonVoiceVars
  \/ \E k \in Calls : MicGranted(k) /\ UNCHANGED nonVoiceVars
  \/ AnalysisTick /\ UNCHANGED nonVoiceVars
  \/ \E k \in Calls : DataAvailable(k) /\ UNCHANGED nonVoiceVars
  \/ \E k \in Calls : RecorderStopTask(k) /\ UNCHANGED nonVoiceVars
  \/ StopRecording /\ UNCHANGED nonVoiceVars
  \/ \E mode \in {"native", "raw"} : SetAudioProcessingMode(mode) /\ UNCHANGED nonVoiceVars

Spec == Init /\ [][Next]_vars

\* the lifecycle together with the failures of the encoder
EncoderNext ==
  \/ Next
  \/ \E k \in Calls : RecorderError(k) /\ UNCHANGED nonVoiceVars

SpecEncoder == Init /\ [][EncoderNext]_vars

\* the lifecycle together with playback and clearRecording
restOfPlayback == <<particleVars, pureVars, wavCall, mounted>>

PlaybackNext ==
  \/ Next
  \/ PlayRecording /\ UNCHANGED restOfPlayback
  \/ \E e \in Plays : OnPlay(e) /\ UNCHANGED restOfPlayback
  \/ \E e \in Plays : OnEnded(e) /\ UNCHANGED restOfPlayback
  \/ \E e \in Plays : PlayRejected(e) /\ UNCHANGED restOfPlayback
  \/ StopPlayback /\ UNCHANGED restOfPlayback
  \/ ClearRecording /\ UNCHANGED restOfPlayback

SpecPlayback == Init /\ [][PlaybackNext]_vars

ParticlesInit == VoiceIdle /\ ParticleInit /\ PureIdle

ParticlesNext ==
  \/ RunEffect /\ UNCHANGED nonParticleVars
  \/ RecordingStarts /\ UNCHANGED nonParticleVars
  \/ RecordingStops /\ UNCHANGED nonParticleVars
  \/ \E f \in AppFrames : AudioFrame(f) /\ UNCHANGED nonParticleVars
  \/ \E value \in BOOLEAN : SetTorusMode(value) /\ UNCHANGED nonParticleVars
  \/ \E value \in {30, 100} : SetNoiseIntensity(value) /\ UNCHANGED nonParticleVars
  \/ \E type \in LoadingTypes : TriggerLoading(type) /\ UNCHANGED nonParticleVars
  \/ Tick /\ UNCHANGED nonParticleVars
  \/ \E i \in 1 .. MaxLoadings : UpdateProgress(i) /\ UNCHANGED nonParticleVars
  \/ \E i \in 1 .. MaxLoadings : CompletionTimeout(i) /\ UNCHANGED nonParticleVars

SpecParticles == ParticlesInit /\ [][ParticlesNext]_vars

\* the recording flow of the parameter mapper (flag changes, frames, manual
\* loading triggers, timers) under the scheduling of the browser: the effect
\* runs after the render that made it pending, time passes, and a timer of
\* the recording flow that is due fires as soon as no effect is pending
FlowNext ==
  \/ RunEffect /\ UNCHANGED nonParticleVars
  \/ RecordingStarts /\ UNCHANGED nonParticleVars
  \/ RecordingStops /\ UNCHANGED nonParticleVars
  \/ \E f \in AppFrames : AudioFrame(f) /\ UNCHANGED nonParticleVars
  \/ \E type \in LoadingTypes : TriggerLoading(type) /\ UNCHANGED nonParticleVars
  \/ Tick /\ UNCHANGED nonParticleVars
  \/ \E i \in 1 .. MaxLoadings : UpdateProgress(i) /\ UNCHANGED nonParticleVars
  \/ \E i \in 1 .. MaxLoadings : CompletionTimeout(i) /\ UNCHANGED nonParticleVars

FlowFairness ==
  /\ WF_vars(RunEffect /\ UNCHANGED nonParticleVars)
  /\ WF_vars(Tick /\ UNCHANGED nonParticleVars)
  /\ SF_vars(\E i \in 1 .. MaxLoadings :
               /\ i \in DOMAIN loadings
               /\ loadings[i].onComplete # "none"
               /\ UpdateProgress(i) /\ UNCHANGED nonParticleVars)
  /\ SF_vars(\E i \in 1 .. MaxLoadings :
               /\ i \in DOMAIN loadings
               /\ loadings[i].onComplete # "none"
               /\ CompletionTimeout(i) /\ UNCHANGED nonParticleVars)

SpecFlow == ParticlesInit /\ [][FlowNext]_vars

SpecFlowFair == ParticlesInit /\ [][FlowNext]_vars /\ FlowFairness

\* the parameter mapper with its teardown: once unmounted nothing calls the
\* hook any more, but the timers that are still armed fire
UnmountNext ==
  \/ mounted /\ ParticlesNext
  \/ Unmount /\ UNCHANGED <<voiceVars, pureVars, wavCall, playbackVars>>
  \/ ~mounted /\ Tick /\ UNCHANGED nonParticleVars
  \/ ~mounted /\ (\E i \in 1 .. MaxLoadings : UpdateProgress(i))
              /\ UNCHANGED nonParticleVars
  \/ ~mounted /\ (\E i \in 1 .. MaxLoadings : CompletionTimeout(i))
              /\ UNCHANGED nonParticleVars

SpecUnmount == ParticlesInit /\ [][UnmountNext]_vars

MapNext == RunEffect /\ UNCHANGED nonParticleVars

MapInit == VoiceIdle /\ MapInputs /\ PureIdle

SpecMap == MapInit /\ [][MapNext]_vars

\* ---- the rolling volume history over a run of analysis ticks
\* cap on the analysis ticks of one session
MaxSamples == 12

\* a session that startRecording has just set up; its first analyzeAudio()
\* measured volume v
SessionRecording(v) ==
  /\ isRecording = TRUE
  /\ hasPermission = "true"
  /\ recordedAudio = NullBlob
  /\ error = ErrNone
  /\ audioProcessingMode = InitialMode
  /\ currentVolume = v
  /\ isVoiceDetected = VoiceActive(<<v>>)
  /\ audioData = [amplitude |-> v]
  /\ audioContextRef = 1
  /\ mediaStreamRef = 1
  /\ mediaRecorderRef = 1
  /\ audioNodesRef = 1
  /\ animationFrameRef = "live"
  /\ recordedChunksRef = <<>>
  /\ volumeHistoryRef = <<v>>
  /\ call = [k \in Calls |->
               IF k = 1 THEN [NoCall EXCEPT !.pc = "returned"] ELSE NoCall]
  /\ hw = [k \in Calls |->
             IF k = 1 THEN [ctx |-> "open", stream |-> "live", nodes |-> "connected",
                            rec |-> "recording", flush |-> "none", captured |-> FALSE]
             ELSE NoHw]
  /\ rafOther = 0
  /\ supported = TRUE
  /\ lastMicRejection = NoRejection
  /\ teardowns = 0
  /\ PlaybackInit

\* fnArgs: the volumes the ticks of the session measured, oldest first
HistoryInit ==
  /\ \E v \in Volumes : SessionRecording(v) /\ fnArgs = <<v>>
  /\ fnResult = NoResult
  /\ wavCall = NoWavCalls
  /\ ParticleInit

\* the animation frame fires: analyzeAudio() measures volume v
HistoryTick ==
  /\ Len(fnArgs) < MaxSamples
  /\ animationFrameRef = "live"
  /\ \E v \in Volumes :
       /\ AnalyzeAudio(audioNodesRef, audioContextRef, v, "ref")
       /\ fnArgs' = Append(fnArgs, v)
  /\ UNCHANGED <<isRecording, hasPermission, recordedAudio, error,
                 audioProcessingMode, audioContextRef, mediaStreamRef,
                 mediaRecorderRef, audioNodesRef, recordedChunksRef,
                 call, hw, supported, lastMicRejection, teardowns, fnResult, particleVars,
                 wavCall, playbackVars, mounted>>

SpecHistory == HistoryInit /\ [][HistoryTick]_vars

\* ---- the frequency band levels of analyzeAudio as a pure function
\* cap on the number of bins of the spectra explored
MaxBins == 4

\* byte spectra (dataArray) and context sample rates
Bytes == {0, 128, 255}
ByteSpectra == UNION {[1 .. n -> Bytes] : n \in 0 .. MaxBins}
SampleRates == {8000, 16000, 44100, 48000}

\* Math.floor((250 * bufferLength) / (sampleRate / 2))
BassEnd(bufferLength, sampleRate) == (250 * bufferLength * 2) \div sampleRate
\* Math.floor((4000 * bufferLength) / (sampleRate / 2))
MidEnd(bufferLength, sampleRate) == (4000 * bufferLength * 2) \div sampleRate

\* the branch of the loop body bin i (counted from 0) takes
BandOf(i, bassEnd, midEnd) ==
  IF i <= bassEnd THEN "bass" ELSE IF i <= midEnd THEN "mid" ELSE "treble"

\* the sum and the count the loop accumulates for a band over bins 0 .. n-1
RECURSIVE BandSum(_, _, _, _, _)
BandSum(dataArray, n, band, bassEnd, midEnd) ==
  IF n = 0 THEN 0
  ELSE BandSum(dataArray, n - 1, band, bassEnd, midEnd)
       + (IF BandOf(n - 1, bassEnd, midEnd) = band THEN dataArray[n] ELSE 0)

BandCount(bufferLength, band, bassEnd, midEnd) ==
  Cardinality({i \in 0 .. bufferLength - 1 : BandOf(i, bassEnd, midEnd) = band})

\* a level computed without the guard on an empty band
BandLevelUnguarded(sum, count) ==
  IF count = 0 THEN NaN ELSE (sum * 1000) \div (count * 255)

\* count > 0 ? sum / count / 255 : 0, in thousandths
BandLevel(sum, count) ==
  IF count > 0 THEN (sum * 1000) \div (count * 255) ELSE 0

\* the band part of analyzeAudio for a spectrum and a sample rate
BandLevels(dataArray, sampleRate) ==
  LET bufferLength == Len(dataArray)
      bassEnd == BassEnd(bufferLength, sampleRate)
      midEnd == MidEnd(bufferLength, sampleRate)
      count(band) == BandCount(bufferLength, band, bassEnd, midEnd)
      sum(band) == BandSum(dataArray, bufferLength, band, bassEnd, midEnd)
  IN [bassCount |-> count("bass"), midCount |-> count("mid"),
      trebleCount |-> count("treble"),
      bandOf |-> [i \in 1 .. bufferLength |-> BandOf(i - 1, bassEnd, midEnd)],
      bassLevel |-> BandLevel(sum("bass"), count("bass")),
      midLevel |-> BandLevel(sum("mid"), count("mid")),
      trebleLevel |-> BandLevel(sum("treble"), count("treble"))]

BandsInit ==
  /\ VoiceIdle
  /\ ParticleInit
  /\ fnArgs \in [dataArray : ByteSpectra, sampleRate : SampleRates]
  /\ fnResult = NoResult
  /\ wavCall = NoWavCalls

ComputeBandLevels ==
  /\ ~fnResult.done
  /\ fnResult' = [done |-> TRUE,
                  value |-> BandLevels(fnArgs.dataArray, fnArgs.sampleRate)]
  /\ UNCHANGED <<fnArgs, voiceVars, particleVars, wavCall, playbackVars, mounted>>

SpecBands == BandsInit /\ [][ComputeBandLevels]_vars

\* ---- the dominant-frequency bin of both analyzers as a pure function
\* cap on the number of bins of the spectra explored
MaxArgBins == 8

ArgSpectra == UNION {[1 .. n -> Bytes] : n \in 0 .. MaxArgBins}

\* a scan in which a later bin of equal magnitude replaces the earlier one
RECURSIVE ScanTakesLast(_, _)
ScanTakesLast(data, n) ==
  IF n = 0 THEN [maxValue |-> 0, maxIndex |-> 0]
  ELSE LET prev == ScanTakesLast(data, n - 1)
       IN IF data[n] >= prev.maxValue /\ data[n] > 0
          THEN [maxValue |-> data[n], maxIndex |-> n - 1]
          ELSE prev

\* useVoice analyzeAudio: dataArray.forEach((value, index) => { if (value >
\* maxValue) ... }) over the first n bins, from maxValue = 0, maxIndex = 0
RECURSIVE VoiceScan(_, _)
VoiceScan(data, n) ==
  IF n = 0 THEN [maxValue |-> 0, maxIndex |-> 0]
  ELSE LET prev == VoiceScan(data, n - 1)
       IN IF data[n] > prev.maxValue
          THEN [maxValue |-> data[n], maxIndex |-> n - 1]
          ELSE prev

\* useAudioAnalyzer analyzeAudio: the same scan over frequencyData
RECURSIVE AnalyzerScan(_, _)
AnalyzerScan(data, n) ==
  IF n = 0 THEN [maxValue |-> 0, maxIndex |-> 0]
  ELSE LET prev == AnalyzerScan(data, n - 1)
       IN IF data[n] > prev.maxValue
          THEN [maxValue |-> data[n], maxIndex |-> n - 1]
          ELSE prev

ArgMaxInit ==
  /\ VoiceIdle
  /\ ParticleInit
  /\ fnArgs \in ArgSpectra
  /\ fnResult = NoResult
  /\ wavCall = NoWavCalls

ComputeMaxIndex ==
  /\ ~fnResult.done
  /\ fnResult' = [done |-> TRUE,
                  voice |-> VoiceScan(fnArgs, Len(fnArgs)).maxIndex,
                  analyzer |-> AnalyzerScan(fnArgs, Len(fnArgs)).maxIndex]
  /\ UNCHANGED <<fnArgs, voiceVars, particleVars, wavCall, playbackVars, mounted>>

SpecArgMax == ArgMaxInit /\ [][ComputeMaxIndex]_vars

\* ---- encodeWav: the quantization of one sample as a pure function
\* a sample is a multiple of 1/SampleUnit, held as its numerator; every such
\* value and each product below is exact in the floating point of the code
SampleUnit == 32

\* numerators from -1.5 to 1.5
Samples == -(SampleUnit + SampleUnit \div 2) .. (SampleUnit + SampleUnit \div 2)

\* Math.max(-1, Math.min(1, channels[i][offset]))
ClampSample(k) ==
  IF k < -SampleUnit THEN -SampleUnit
  ELSE IF k > SampleUnit THEN SampleUnit ELSE k

\* (x) | 0 for a quotient num / den inside the int32 range: drop the fraction
TruncDiv(num, den) ==
  IF num >= 0 THEN num \div den ELSE -((-num) \div den)

\* (0.5 + sample < 0 ? sample * 32768 : sample * 32767) | 0
Quantize(k) ==
  LET sample == ClampSample(k)
  IN IF SampleUnit \div 2 + sample < 0
     THEN TruncDiv(sample * 32768, SampleUnit)
     ELSE TruncDiv(sample * 32767, SampleUnit)

QuantizeInit ==
  /\ VoiceIdle
  /\ ParticleInit
  /\ fnArgs \in Samples
  /\ fnResult = NoResult
  /\ wavCall = NoWavCalls

QuantizeSample ==
  /\ ~fnResult.done
  /\ fnResult' = [done |-> TRUE, value |-> Quantize(fnArgs)]
  /\ UNCHANGED <<fnArgs, voiceVars, particleVars, wavCall, playbackVars, mounted>>

SpecQuantize == QuantizeInit /\ [][QuantizeSample]_vars

\* ---- encodeWav: the whole file as a pure function of the AudioBuffer
\* cap on the number of frames of the buffers explored
MaxFrames == 2

ChannelCounts == {1, 2}

WavSampleRates == {8000, 44100, 48000}

\* -1, -0.25, 0, 0.5 and 1.5 in units of 1/SampleUnit
WavSamples == {-SampleUnit, -(SampleUnit \div 4), 0, SampleUnit \div 2,
               SampleUnit + SampleUnit \div 2}

AudioBuffers ==
  UNION {[numberOfChannels : {c}, length : {n}, sampleRate : WavSampleRates,
          channels : [1 .. c -> [1 .. n -> WavSamples]]] :
           c \in ChannelCounts, n \in 0 .. MaxFrames}

\* DataView.setUint16 / setUint32 with littleEndian = true: the low `width`
\* bytes of the value, least significant first (flooring division gives the
\* two's complement bytes of a negative value)
LittleEndian(value, width) ==
  [b \in 1 .. width |-> (value \div (256 ^ (b - 1))) % 256]

\* writeString: the char codes of the four tags
TagRIFF == <<82, 73, 70, 70>>
TagWAVE == <<87, 65, 86, 69>>
TagFmt == <<102, 109, 116, 32>>
TagData == <<100, 97, 116, 97>>

\* the 44 bytes written before the sample loop
WavHeader(audioBuffer) ==
  LET numOfChan == audioBuffer.numberOfChannels
      dataSize == audioBuffer.length * numOfChan * 2
  IN TagRIFF \o LittleEndian(36 + dataSize, 4) \o TagWAVE
     \o TagFmt \o LittleEndian(16, 4) \o LittleEndian(1, 2)
     \o LittleEndian(numOfChan, 2)
     \o LittleEndian(audioBuffer.sampleRate, 4)
     \o LittleEndian(audioBuffer.sampleRate * 2 * numOfChan, 4)
     \o LittleEndian(numOfChan * 2, 2) \o LittleEndian(16, 2)
     \o TagData \o LittleEndian(dataSize, 4)

\* a sample loop that writes channel after channel instead of frame after
\* frame
PcmDataPlanar(audioBuffer) ==
  LET numOfChan == audioBuffer.numberOfChannels
      frames == audioBuffer.length
  IN [p \in 1 .. frames * numOfChan * 2 |->
        LET slot == (p - 1) \div 2
            i == slot \div frames
            offset == slot % frames
        IN LittleEndian(Quantize(audioBuffer.channels[i + 1][offset + 1]),
                        2)[((p - 1) % 2) + 1]]

\* while (pos < length) { for (i = 0; i < numOfChan; i++) { ...
\* view.setInt16(pos, sample, true); pos += 2 } offset++ }
PcmData(audioBuffer) ==
  LET numOfChan == audioBuffer.numberOfChannels
  IN [p \in 1 .. audioBuffer.length * numOfChan * 2 |->
        LET slot == (p - 1) \div 2
            offset == slot \div numOfChan
            i == slot % numOfChan
        IN LittleEndian(Quantize(audioBuffer.channels[i + 1][offset + 1]),
                        2)[((p - 1) % 2) + 1]]

encodeWav(audioBuffer) == WavHeader(audioBuffer) \o PcmData(audioBuffer)

WavInit ==
  /\ VoiceIdle
  /\ ParticleInit
  /\ fnArgs \in AudioBuffers
  /\ fnResult = NoResult
  /\ wavCall = NoWavCalls

EncodeBuffer ==
  /\ ~fnResult.done
  /\ fnResult' = [done |-> TRUE, value |-> encodeWav(fnArgs)]
  /\ UNCHANGED <<fnArgs, voiceVars, particleVars, wavCall, playbackVars, mounted>>

SpecWav == WavInit /\ [][EncodeBuffer]_vars

\* ---- updateSmoothParams: the smoothing loop toward a fixed target
\* cap on the number of animation frames explored
MaxSmoothTicks == 3

NumericFields == {"noiseIntensity", "pulseAmplitude", "torusRadius",
                  "torusSpeed", "torusMinorRadius"}

\* const smoothingFactor = 0.08, as the fraction 2/25
smoothingFactor == <<2, 25>>

\* the interpolated values are held in units of 1/SmoothScale of a
\* thousandth, which keeps MaxSmoothTicks successive products by 2/25 exact
SmoothScale == smoothingFactor[2] ^ MaxSmoothTicks

Fine(params) ==
  [f \in DOMAIN params |->
     IF f \in NumericFields THEN params[f] * SmoothScale ELSE params[f]]

Abs(x) == IF x < 0 THEN -x ELSE x

\* an interpolation at half the factor
lerpHalfFactor(start, end, factor) ==
  start + ((end - start) \div factor[2]) * (factor[1] \div 2)

\* lerp: start + (end - start) * factor
lerp(start, end, factor) ==
  start + ((end - start) \div factor[2]) * factor[1]

\* targets below, at and above the starting values
SmoothTargets ==
  [noiseIntensity : {10, 30, 150}, pulseAmplitude : {20, 100},
   torusMode : BOOLEAN, torusRadius : {500, 1000, 2000},
   torusSpeed : {1000}, torusMinorRadius : {100, 300}]

SmoothInit ==
  /\ VoiceIdle
  /\ baseParams = InitialParams
  /\ loadingState = [isLoading |-> FALSE, progress |-> 0, type |-> "idle"]
  /\ recordingPhase = "idle"
  /\ targetParamsRef \in SmoothTargets
  /\ wasRecordingRef = FALSE
  /\ dataToSend = [isRecording |-> FALSE, frame |-> SilentFrame]
  /\ effectPending = FALSE
  /\ loadings = <<>>
  /\ mounted = TRUE
  /\ fnArgs = InitialParams
  /\ fnResult = [done |-> FALSE, ticks |-> 0,
                 currentParamsRef |-> Fine(InitialParams),
                 audioParams |-> Fine(InitialParams)]
  /\ wavCall = NoWavCalls

\* one animation frame of updateSmoothParams
UpdateSmoothParams ==
  /\ fnResult.ticks < MaxSmoothTicks
  /\ LET current == fnResult.currentParamsRef
         target == Fine(targetParamsRef)
         newParams ==
           [f \in DOMAIN current |->
              IF f \in NumericFields
              THEN lerp(current[f], target[f], smoothingFactor)
              ELSE target[f]]
         \* threshold = 0.001 is one thousandth
         hasChanged ==
           \/ \E f \in NumericFields :
                Abs(newParams[f] - current[f]) > SmoothScale
           \/ newParams.torusMode # current.torusMode
     IN fnResult' = [done |-> TRUE, ticks |-> fnResult.ticks + 1,
                     currentParamsRef |-> newParams,
                     audioParams |-> IF hasChanged THEN newParams
                                     ELSE fnResult.audioParams]
  /\ UNCHANGED <<fnArgs, voiceVars, particleVars, wavCall, playbackVars, mounted>>

SpecSmooth == SmoothInit /\ [][UpdateSmoothParams]_vars

\* ---- getRecordedAudioAsWav: the conversion of the recording to WAV
ErrNothingToConvert == "No audio recorded to convert to WAV."
ErrDecodeFailed ==
  "Failed to convert to WAV format. The recording might be too short or corrupted."

RecordedBlob == [isNull |-> FALSE, chunks |-> <<1>>]

NextExport == Cardinality({k \in Exports : wavCall[k].pc # "unused"}) + 1

\* a finally block that closes the scratch context only after a success
CloseTempContextOnSuccess(w) ==
  IF w.caught = "none" THEN [w EXCEPT !.tempAudioContext = "closed"] ELSE w

\* finally { tempAudioContext.close() }
CloseTempContext(w) == [w EXCEPT !.tempAudioContext = "closed"]

\* the catch block followed by the finally block: setError, return null
ExportCatch(k, what) ==
  /\ error' = ErrDecodeFailed
  /\ wavCall' = [wavCall EXCEPT ![k] =
                   CloseTempContext([@ EXCEPT !.pc = "returned",
                                              !.result = "null",
                                              !.caught = what])]

\* what no step of getRecordedAudioAsWav assigns
ExportFrame ==
  UNCHANGED <<isRecording, hasPermission, recordedAudio, audioProcessingMode,
              currentVolume, isVoiceDetected, audioData, audioContextRef,
              mediaStreamRef, mediaRecorderRef, audioNodesRef,
              animationFrameRef, recordedChunksRef, volumeHistoryRef,
              call, hw, rafOther, supported, lastMicRejection, teardowns>>

\* getRecordedAudioAsWav() up to its first await
GetRecordedAudioAsWav ==
  /\ NextExport \in Exports
  /\ LET k == NextExport
     IN IF recordedAudio.isNull
        THEN /\ error' = ErrNothingToConvert
             /\ wavCall' = [wavCall EXCEPT ![k].pc = "returned",
                                           ![k].result = "null"]
        ELSE /\ wavCall' = [wavCall EXCEPT ![k].pc = "reading",
                                           ![k].tempAudioContext = "open"]
             /\ UNCHANGED error
  /\ ExportFrame

\* recordedAudio.arrayBuffer() settles
BlobReadSettled(k) ==
  /\ wavCall[k].pc = "reading"
  /\ \/ /\ wavCall' = [wavCall EXCEPT ![k].pc = "decoding"]
        /\ UNCHANGED error
     \/ ExportCatch(k, "read")
  /\ ExportFrame

\* decodeAudioData settles; on success encodeWav runs and the blob is returned
DecodeSettled(k) ==
  /\ wavCall[k].pc = "decoding"
  /\ \/ /\ wavCall' = [wavCall EXCEPT ![k] =
                         CloseTempContext([@ EXCEPT !.pc = "returned",
                                                    !.result = "wav"])]
        /\ UNCHANGED error
     \/ ExportCatch(k, "decode")
  /\ ExportFrame

\* the hook after a session that was started, delivered a chunk and was
\* stopped: the recording is kept, every handle is released
SessionFinished ==
  /\ isRecording = FALSE
  /\ hasPermission = "true"
  /\ recordedAudio = RecordedBlob
  /\ error = ErrNone
  /\ audioProcessingMode = InitialMode
  /\ currentVolume = 0
  /\ isVoiceDetected = FALSE
  /\ audioData = ZeroFrame
  /\ audioContextRef = 0
  /\ mediaStreamRef = 0
  /\ mediaRecorderRef = 0
  /\ audioNodesRef = 0
  /\ animationFrameRef = "null"
  /\ recordedChunksRef = RecordedBlob.chunks
  /\ volumeHistoryRef = <<>>
  /\ call = [k \in Calls |->
               IF k = 1 THEN [NoCall EXCEPT !.pc = "returned"] ELSE NoCall]
  /\ hw = [k \in Calls |-> NoHw]
  /\ rafOther = 0
  /\ supported = TRUE
  /\ lastMicRejection = NoRejection
  /\ teardowns = 0
  /\ PlaybackInit

\* the hook at rest without a recording, recording, or at rest with a
\* finished recording
ExportInit ==
  /\ \/ VoiceIdle
     \/ \E v \in Volumes : SessionRecording(v)
     \/ SessionFinished
  /\ ParticleInit
  /\ PureIdle

ExportNext ==
  \/ GetRecordedAudioAsWav /\ UNCHANGED <<particleVars, pureVars, playbackVars, mounted>>
  \/ \E k \in Exports : BlobReadSettled(k) /\ UNCHANGED <<particleVars, pureVars, playbackVars, mounted>>
  \/ \E k \in Exports : DecodeSettled(k) /\ UNCHANGED <<particleVars, pureVars, playbackVars, mounted>>

SpecExport == ExportInit /\ [][ExportNext]_vars

\* ---- the dominant frequency of both analyzers as a pure function
\* analysis window sizes: 256 is the default of useAudioAnalyzer, 1024 what
\* useVoice configures
FftSizes == {32, 256, 1024}

\* sample rates in units of 100 Hz
RatesInHundreds == {80, 441, 480}

FrequencyInputs ==
  UNION {[maxIndex : 0 .. (w \div 2) - 1, sampleRate : RatesInHundreds,
          fftSize : {w}] : w \in FftSizes}

\* a quotient of the code, kept as the fraction num / den
\* useVoice: (maxIndex * sampleRate) / audioNodes.analyser.fftSize
VoiceFrequency(maxIndex, sampleRate, fftSize) ==
  [num |-> maxIndex * sampleRate, den |-> fftSize]

\* useAudioAnalyzer: (maxIndex * (sampleRate || 44100)) / (fftSize * 2)
AnalyzerFrequency(maxIndex, sampleRate, fftSize) ==
  [num |-> maxIndex * (IF sampleRate = 0 THEN 441 ELSE sampleRate),
   den |-> fftSize * 2]

FrequencyInit ==
  /\ VoiceIdle
  /\ ParticleInit
  /\ fnArgs \in FrequencyInputs
  /\ fnResult = NoResult
  /\ wavCall = NoWavCalls

ComputeFrequency ==
  /\ ~fnResult.done
  /\ fnResult' =
       [done |-> TRUE,
        voice |-> VoiceFrequency(fnArgs.maxIndex, fnArgs.sampleRate,
                                 fnArgs.fftSize),
        analyzer |-> AnalyzerFrequency(fnArgs.maxIndex, fnArgs.sampleRate,
                                       fnArgs.fftSize)]
  /\ UNCHANGED <<fnArgs, voiceVars, particleVars, wavCall, playbackVars, mounted>>

SpecFrequency == FrequencyInit /\ [][ComputeFrequency]_vars

\* ------------------------------------------------------- derived state
OpenContexts == {k \in Calls : hw[k].ctx = "open"}
LiveStreams == {k \in Calls : hw[k].stream = "live"}
ConnectedNodes == {k \in Calls : hw[k].nodes = "connected"}
RunningRecorders == {k \in Calls : hw[k].rec = "recording"}
PendingTicks == rafOther + (IF animationFrameRef = "live" THEN 1 ELSE 0)

AllRefsNull ==
  /\ audioContextRef = 0
  /\ mediaStreamRef = 0
  /\ mediaRecorderRef = 0
  /\ audioNodesRef = 0
  /\ animationFrameRef = "null"

\* nothing of any session is left running
TornDown ==
  /\ ~isRecording
  /\ LiveStreams = {}
  /\ OpenContexts = {}
  /\ RunningRecorders = {}
  /\ PendingTicks = 0

\* the state the teardown claims compare
Released ==
  <<audioContextRef, mediaStreamRef, mediaRecorderRef, audioNodesRef,
    animationFrameRef, isRecording, currentVolume, isVoiceDetected,
    volumeHistoryRef, audioData,
    OpenContexts, LiveStreams, ConnectedNodes, RunningRecorders, PendingTicks>>

\* ----------------------------------------------------------------- claims

\* C1: a startRecording() issued in Raw mode while hasPermission is unset
\* asks getUserMedia for echoCancellation=true, noiseSuppression=false,
\* autoGainControl=false (the constraints follow the mode selected when
\* startRecording is called), and a grant sets hasPermission to true.
C1_RawModeRequestsRawConstraints ==
  [][\A k \in Calls :
       /\ (/\ audioProcessingMode = "raw"
           /\ hasPermission = "null"
           /\ call[k].pc = "unused"
           /\ call'[k].pc = "mic")
          => call'[k].constraints = ConstraintsFor("raw")
       /\ MicGranted(k) => hasPermission' = "true"]_vars

\* C2: overlapping lifecycle calls do not interleave hardware setup: at
\* every moment at most one audio context, one microphone stream, one
\* encoder and one analysis loop are unreleased, and each is the one the
\* session's refs name.
C2_AtMostOneSessionOwnsHardware ==
  /\ Cardinality(OpenContexts) <= 1
  /\ Cardinality(LiveStreams) <= 1
  /\ Cardinality(RunningRecorders) <= 1
  /\ PendingTicks <= 1
  /\ rafOther = 0
  /\ \A k \in Calls :
       /\ (hw[k].ctx = "open" /\ call[k].pc \in {"mic", "returned"})
            => audioContextRef = k
       /\ hw[k].stream = "live" => mediaStreamRef = k
       /\ hw[k].rec = "recording" => mediaRecorderRef = k

\* C3: when stopRecording() ran while a startRecording() was suspended, the
\* start aborts as soon as the step it waits for completes, and nothing is
\* left running: isRecording false, no live track, no open context, no
\* running encoder, no scheduled analysis tick.
C3_StopDuringStartAborts ==
  [][\A k \in Calls :
       (call[k].stopped /\ call'[k].pc # call[k].pc)
         => (call'[k].pc = "returned" /\ TornDown')]_vars

\* C4: whenever startRecording() fails, at its return every resource it
\* acquired is released: its context is closed, its tracks are stopped, its
\* nodes are disconnected, all session handles are null and isRecording is
\* false.
C4_FailedStartReleasesEverything ==
  [][\A k \in Calls :
       (/\ call[k].pc # "returned"
        /\ call'[k].pc = "returned"
        /\ hw'[k].rec # "recording")
         => (/\ hw'[k].ctx # "open"
             /\ hw'[k].stream # "live"
             /\ hw'[k].nodes # "connected"
             /\ AllRefsNull'
             /\ ~isRecording')]_vars

\* no invocation other than k is suspended or holds unreleased hardware
OnlySession(k) ==
  \A j \in Calls \ {k} :
    /\ call[j].pc \in {"unused", "returned"}
    /\ hw[j].ctx # "open"
    /\ hw[j].stream # "live"
    /\ hw[j].rec # "recording"
    /\ hw[j].flush = "none"

\* C5: when stopRecording() ended a session that captured no non-empty
\* chunk, then after the encoder's stop event recordedAudio is null, error
\* is the NoAudioCaptured message, isRecording is false and all handles are
\* released; for every session, also one that follows a successful one
\* (stated for sessions that do not overlap another invocation and whose
\* hardware the stop released).
C5_ZeroChunkStopReportsNoAudio ==
  [][\A k \in Calls :
       (/\ RecorderStopTask(k)
        /\ hw[k].flush = "stop"
        /\ ~hw[k].captured
        /\ recordedChunksRef' = <<>>
        /\ hw[k].ctx = "closed"
        /\ hw[k].stream = "stopped"
        /\ OnlySession(k))
         => (/\ recordedAudio' = NullBlob
             /\ error' = ErrNoAudioCaptured
             /\ ~isRecording'
             /\ AllRefsNull')]_vars

\* C6: teardown is idempotent: a stopRecording() or cleanup() that directly
\* follows a stopRecording() or cleanup() leaves handles, isRecording,
\* volume, voice flag, history, feature frame and the released resources
\* exactly as the first call left them.
C6_TeardownIdempotent ==
  [][(teardowns >= 1 /\ teardowns' = 2) => Released' = Released]_vars

\* C6 witness: a second teardown call ran right after one that stopped a
\* running encoder
C6_Witness ==
  /\ teardowns = 2
  /\ \E k \in Calls : hw[k].flush # "none"
\* the recording flow runs at most one loading sequence at a time, so the cap
\* on manual sequences caps them all
LoadingsWithinCap ==
  /\ Len(loadings) <= MaxLoadings
  /\ Cardinality(DOMAIN loadings \ ManualLoadings) <= 1

\* C7: when the recording flag rises while the phase is Idle, the phase
\* becomes PreRecordingLoading and baseParams.torusMode becomes true; the
\* phase leaves PreRecordingLoading only for Recording, and only once the
\* loading duration and the deferred completion delay have elapsed; no audio
\* frame processed in that window changes torusMode or the phase.
C7_RiseRunsPreRecordingLoading ==
  [][/\ (RunEffect /\ recordingPhase = "idle" /\ dataToSend.isRecording)
          => (recordingPhase' = "pre-recording-loading" /\ baseParams'.torusMode)
     /\ (recordingPhase = "pre-recording-loading" /\ recordingPhase' # recordingPhase)
          => /\ recordingPhase' = "recording"
             /\ \E i \in DOMAIN loadings :
                  /\ loadings[i].onComplete = "recording"
                  /\ loadings[i].elapsed >= PreLoadingMs
                  /\ loadings[i].wait >= CompletionDelayMs
     /\ (RunEffect /\ recordingPhase = "pre-recording-loading")
          => /\ recordingPhase' = recordingPhase
             /\ baseParams'.torusMode = baseParams.torusMode]_vars

\* C7 witness: a loud frame was processed in the pre-recording window and the
\* window's timers have run out
C7_Witness ==
  /\ recordingPhase = "pre-recording-loading"
  /\ dataToSend = [isRecording |-> TRUE, frame |-> LoudFrame]
  /\ ~effectPending
  /\ baseParams.torusMode
  /\ \E i \in DOMAIN loadings :
       /\ loadings[i].onComplete = "recording"
       /\ loadings[i].stage = "defer"
       /\ loadings[i].wait >= CompletionDelayMs

\* C8: when the recording flag falls while the phase is Recording, the phase
\* becomes PostRecordingLoading and a loading sequence runs; the phase leaves
\* PostRecordingLoading only on that sequence's completion, for Idle, with
\* torusMode false.
C8_FallRunsPostRecordingLoading ==
  [][/\ (RunEffect /\ recordingPhase = "recording" /\ ~dataToSend.isRecording)
          => /\ recordingPhase' = "post-recording-loading"
             /\ loadingState'.isLoading
             /\ \E i \in DOMAIN loadings' :
                  /\ loadings'[i].onComplete = "idle"
                  /\ loadings'[i].stage = "ramp"
     /\ (recordingPhase = "post-recording-loading" /\ recordingPhase' # recordingPhase)
          => /\ recordingPhase' = "idle"
             /\ ~baseParams'.torusMode
             /\ \E i \in DOMAIN loadings :
                  /\ loadings[i].onComplete = "idle"
                  /\ loadings[i].elapsed >= PostLoadingMs
                  /\ loadings[i].wait >= CompletionDelayMs]_vars

\* C8 witness: the post-recording sequence has run and its completion is due
C8_Witness ==
  /\ recordingPhase = "post-recording-loading"
  /\ ~dataToSend.isRecording
  /\ \E i \in DOMAIN loadings :
       /\ loadings[i].onComplete = "idle"
       /\ loadings[i].stage = "defer"
       /\ loadings[i].wait >= CompletionDelayMs

\* C9: in every state in which the phase is PreRecordingLoading or
\* PostRecordingLoading, or loadingState.isLoading is true, the smoothing
\* target equals the current baseParams.
C9_TargetPinnedWhileLoading ==
  (\/ recordingPhase \in {"pre-recording-loading", "post-recording-loading"}
   \/ loadingState.isLoading)
    => targetParamsRef = baseParams

\* C10: for every feature frame and every baseParams, the targets the mapping
\* produces are numbers, never NaN, with noiseIntensity <= 1.0,
\* pulseAmplitude <= 0.6, torusRadius in [0.5, 2.5], torusSpeed in
\* [0.1, 4.0] and torusMinorRadius in [0.1, 0.9].
C10_TargetsWithinBounds ==
  (recordingPhase = "recording" /\ dataToSend.isRecording /\ ~effectPending
   /\ ~loadingState.isLoading)
    => LET t == targetParamsRef
       IN /\ t.noiseIntensity # NaN /\ t.noiseIntensity <= 1000
          /\ t.pulseAmplitude # NaN /\ t.pulseAmplitude <= 600
          /\ t.torusRadius # NaN /\ t.torusRadius >= 500 /\ t.torusRadius <= 2500
          /\ t.torusSpeed # NaN /\ t.torusSpeed >= 100 /\ t.torusSpeed <= 4000
          /\ t.torusMinorRadius # NaN /\ t.torusMinorRadius >= 100
          /\ t.torusMinorRadius <= 900

\* C11: after every analysis tick the rolling history holds the most recent
\* min(n, 10) of the n volumes measured, in insertion order, never more than
\* 10, and isVoiceDetected is true exactly when the mean of the history is
\* strictly greater than 30.
C11_HistoryWindowAndVoiceFlag ==
  LET n == Len(fnArgs)
      m == IF n < 10 THEN n ELSE 10
  IN /\ volumeHistoryRef = SubSeq(fnArgs, n - m + 1, n)
     /\ Len(volumeHistoryRef) <= 10
     /\ isVoiceDetected <=> (SumSeq(volumeHistoryRef) > 30 * Len(volumeHistoryRef))

\* C11 witness: more than 10 ticks ran, a loud oldest sample was evicted and
\* the mean of the window sits exactly on the threshold
C11_Witness ==
  /\ Len(fnArgs) > 10
  /\ fnArgs[1] = 60
  /\ volumeHistoryRef[1] = 0
  /\ SumSeq(volumeHistoryRef) = 30 * Len(volumeHistoryRef)
  /\ ~isVoiceDetected

\* C12: for every byte spectrum and sample rate the three bands partition
\* the bins into contiguous ranges (bass, then mid, then treble, every bin in
\* exactly one), each level is a number in [0, 1], a band without bins has
\* level 0, and an all-zero spectrum gives three levels of exactly 0.
C12_BandLevelsWellFormed ==
  fnResult.done =>
    LET r == fnResult.value
        n == Len(fnArgs.dataArray)
        rank(b) == IF b = "bass" THEN 0 ELSE IF b = "mid" THEN 1 ELSE 2
    IN /\ r.bassCount + r.midCount + r.trebleCount = n
       /\ \A i \in 1 .. n : \A j \in i .. n : rank(r.bandOf[i]) <= rank(r.bandOf[j])
       /\ r.bassCount = Cardinality({i \in 1 .. n : r.bandOf[i] = "bass"})
       /\ r.midCount = Cardinality({i \in 1 .. n : r.bandOf[i] = "mid"})
       /\ r.trebleCount = Cardinality({i \in 1 .. n : r.bandOf[i] = "treble"})
       /\ \A l \in {r.bassLevel, r.midLevel, r.trebleLevel} :
            l # NaN /\ 0 <= l /\ l <= 1000
       /\ r.bassCount = 0 => r.bassLevel = 0
       /\ r.midCount = 0 => r.midLevel = 0
       /\ r.trebleCount = 0 => r.trebleLevel = 0
       /\ (\A i \in 1 .. n : fnArgs.dataArray[i] = 0)
            => (r.bassLevel = 0 /\ r.midLevel = 0 /\ r.trebleLevel = 0)

\* C12 witness: levels were computed for a spectrum whose mid band is empty
\* while bass and treble hold non-zero bins
C12_Witness ==
  /\ fnResult.done
  /\ fnResult.value.midCount = 0
  /\ fnResult.value.bassLevel > 0
  /\ fnResult.value.trebleLevel > 0

\* C13: in both analyzers the dominant-frequency bin is the lowest index
\* holding the maximum magnitude of the spectrum (equal maxima at indices 3
\* and 7 give 3), and an all-zero spectrum gives index 0.
C13_DominantBinIsFirstMaximum ==
  fnResult.done =>
    LET n == Len(fnArgs)
        IsMax(i) == \A j \in 1 .. n : fnArgs[j] <= fnArgs[i]
        first == IF \A j \in 1 .. n : fnArgs[j] = 0 THEN 0
                 ELSE (CHOOSE i \in 1 .. n :
                         IsMax(i) /\ \A j \in 1 .. i - 1 : ~IsMax(j)) - 1
    IN /\ fnResult.voice = first
       /\ fnResult.analyzer = first
       /\ (n >= 8 /\ fnArgs[4] = fnArgs[8] /\ fnArgs[4] > 0 /\ IsMax(4)
            /\ \A j \in 1 .. 3 : fnArgs[j] < fnArgs[4])
            => (fnResult.voice = 3 /\ fnResult.analyzer = 3)

\* C13 witness: the scan ran over a spectrum whose only maxima sit at
\* indices 3 and 7
C13_Witness ==
  /\ fnResult.done
  /\ Len(fnArgs) = 8
  /\ fnArgs[4] = 255
  /\ fnArgs[8] = 255
  /\ \A j \in {1, 2, 3, 5, 6, 7} : fnArgs[j] < 255
  /\ fnResult.voice = 3

\* C14: the value written for a sample is the sample clamped to [-1,1],
\* multiplied by 32768 when the clamped value is negative and by 32767
\* otherwise, truncated toward zero.
C14_NegativeSamplesScaleBy32768 ==
  fnResult.done =>
    LET sample == ClampSample(fnArgs)
        factor == IF sample < 0 THEN 32768 ELSE 32767
    IN fnResult.value = TruncDiv(sample * factor, SampleUnit)

\* C15: for N frames, C channels and rate R the file has 44 + 2NC bytes,
\* with RIFF size 36 + 2NC, fmt size 16, format 1, C channels, rate R, byte
\* rate 2RC, block align 2C, 16 bits, data size 2NC, then the samples
\* interleaved frame by frame as little-endian 16-bit values; silence
\* encodes to zero values.
C15_WavLayout ==
  fnResult.done =>
    LET wav == fnResult.value
        N == fnArgs.length
        C == fnArgs.numberOfChannels
        R == fnArgs.sampleRate
        U16(at) == wav[at + 1] + 256 * wav[at + 2]
        U32(at) == U16(at) + 65536 * U16(at + 2)
        S16(at) == IF U16(at) >= 32768 THEN U16(at) - 65536 ELSE U16(at)
    IN /\ Len(wav) = 44 + 2 * N * C
       /\ SubSeq(wav, 1, 4) = TagRIFF
       /\ U32(4) = 36 + 2 * N * C
       /\ SubSeq(wav, 9, 12) = TagWAVE
       /\ SubSeq(wav, 13, 16) = TagFmt
       /\ U32(16) = 16
       /\ U16(20) = 1
       /\ U16(22) = C
       /\ U32(24) = R
       /\ U32(28) = R * 2 * C
       /\ U16(32) = 2 * C
       /\ U16(34) = 16
       /\ SubSeq(wav, 37, 40) = TagData
       /\ U32(40) = 2 * N * C
       /\ \A f \in 0 .. N - 1 : \A c \in 0 .. C - 1 :
            S16(44 + 2 * (f * C + c)) = Quantize(fnArgs.channels[c + 1][f + 1])
       /\ (\A f \in 1 .. N : \A c \in 1 .. C : fnArgs.channels[c][f] = 0)
            => \A at \in 45 .. Len(wav) : wav[at] = 0

\* C15 witness: a stereo buffer of two frames with different samples in the
\* two channels was encoded
C15_Witness ==
  /\ fnResult.done
  /\ fnArgs.numberOfChannels = 2
  /\ fnArgs.length = 2
  /\ fnArgs.channels[1] = <<-SampleUnit, 0>>
  /\ fnArgs.channels[2] = <<SampleUnit \div 2, -(SampleUnit \div 4)>>
  /\ SubSeq(fnResult.value, 45, 52) = <<0, 128, 255, 63, 0, 0, 1, 224>>

\* C16: with a fixed target, after N smoothing ticks every numeric field is
\* within |current_0 - target| * (1 - f)^N of the target; a tick moves each
\* numeric field toward its target without passing it, and the result's
\* torusMode is the target's from the first tick on.
C16_SmoothingConverges ==
  [][fnResult'.ticks = fnResult.ticks + 1 =>
       LET N == fnResult'.ticks
           old == fnResult.currentParamsRef
           new == fnResult'.currentParamsRef
           target == Fine(targetParamsRef)
           num == smoothingFactor[2] - smoothingFactor[1]
           den == smoothingFactor[2]
       IN /\ \A f \in NumericFields :
               /\ Abs(new[f] - target[f])
                    <= Abs(fnArgs[f] - targetParamsRef[f])
                         * den ^ (MaxSmoothTicks - N) * num ^ N
               /\ old[f] <= target[f] => (old[f] <= new[f] /\ new[f] <= target[f])
               /\ old[f] >= target[f] => (old[f] >= new[f] /\ new[f] >= target[f])
               /\ old[f] # target[f] => new[f] # old[f]
          /\ new.torusMode = targetParamsRef.torusMode]_vars

\* C16 witness: all the ticks ran toward a target that is above the start in
\* one field and below it in another, with torus mode switched
C16_Witness ==
  /\ fnResult.ticks = MaxSmoothTicks
  /\ targetParamsRef.noiseIntensity > fnArgs.noiseIntensity
  /\ targetParamsRef.torusRadius < fnArgs.torusRadius
  /\ targetParamsRef.torusMode
  /\ fnResult.currentParamsRef.noiseIntensity
       < targetParamsRef.noiseIntensity * SmoothScale
  /\ fnResult.currentParamsRef.torusRadius
       > targetParamsRef.torusRadius * SmoothScale

\* C17: a failed microphone request ends with hasPermission false and the
\* PermissionDenied message on a denial, with the DeviceNotFound message on
\* a missing device, with the AcquisitionFailed message on any other
\* failure, and never with error null or isRecording true.
C17_EveryOtherFailureIsAcquisitionFailed ==
  [][((\E k \in Calls : call[k].pc = "mic" /\ call'[k].pc = "returned")
        /\ hasPermission' = "false") =>
       LET err == lastMicRejection'
       IN /\ error' =
               IF err.isError /\ err.name = "NotAllowedError"
               THEN ErrPermissionDenied
               ELSE IF err.isError /\ err.name = "NotFoundError"
                    THEN ErrDeviceNotFound
                    ELSE ErrAcquisitionFailed
          /\ hasPermission' = "false"
          /\ error' # ErrNone
          /\ ~isRecording']_vars

\* C18: every invocation of getRecordedAudioAsWav that has returned has
\* closed the scratch context it created, whether it encoded, failed to
\* read the blob or failed to decode; a failure returns null with the
\* DecodeFailed error set by that step; no step of the conversion changes
\* recordedAudio, isRecording or a handle of the recording session.
C18_ExportClosesScratchContext ==
  [][/\ \A k \in Exports :
          wavCall'[k].pc = "returned" =>
            /\ wavCall'[k].tempAudioContext # "open"
            /\ (wavCall'[k].caught # "none" => wavCall'[k].result = "null")
            /\ ((wavCall[k].pc # "returned" /\ wavCall'[k].caught # "none")
                  => error' = ErrDecodeFailed)
            /\ (wavCall[k].pc \in {"reading", "decoding"}
                  => wavCall'[k].tempAudioContext = "closed")
    /\ ((wavCall' # wavCall) =>
          UNCHANGED <<recordedAudio, isRecording, audioContextRef,
                      mediaStreamRef, mediaRecorderRef, audioNodesRef,
                      animationFrameRef, hw>>)]_vars

\* C18 witness: three conversions of a finished recording returned, one after
\* a blob read failure, one after a decode failure and one with the WAV
C18_Witness ==
  /\ ~recordedAudio.isNull
  /\ \A k \in Exports : wavCall[k].pc = "returned"
                          /\ wavCall[k].tempAudioContext = "closed"
  /\ \E k \in Exports : wavCall[k].caught = "read"
  /\ \E k \in Exports : wavCall[k].caught = "decode"
  /\ \E k \in Exports : wavCall[k].result = "wav"
  /\ error = ErrDecodeFailed

\* C19: once the encoder of the current session has failed and its final
\* events were delivered, the session is back at Idle with no further user
\* action: error is set, isRecording is false and the context, stream,
\* nodes, encoder and analysis loop are released.
C19_EncoderErrorReturnsToIdle ==
  \A k \in Calls :
    (hw[k].rec = "failed" /\ hw[k].flush = "none") =>
      /\ error # ErrNone
      /\ ~isRecording
      /\ hw[k].ctx # "open"
      /\ hw[k].stream # "live"
      /\ hw[k].nodes # "connected"
      /\ mediaRecorderRef # k
      /\ animationFrameRef = "null"

\* C20: a call of processAudioData leaves the target unchanged or equal to
\* baseParams unless, at the call, the phase is Recording, the frame's
\* recording flag is true and no loading is active; in that case, when the
\* call is not the one that detects a transition, the target becomes the
\* value mapped from the frame.
C20_AudioTargetOnlyWhileRecording ==
  [][LET recordingNow == /\ recordingPhase = "recording"
                         /\ dataToSend.isRecording
                         /\ ~loadingState.isLoading
         mapped == AudioTargets(baseParams, dataToSend.frame)
     IN /\ \/ targetParamsRef' = targetParamsRef
           \/ targetParamsRef' = baseParams
           \/ recordingNow /\ effectPending /\ targetParamsRef' = mapped
        /\ (effectPending /\ ~effectPending' /\ recordingNow)
             => targetParamsRef' = mapped
        /\ (effectPending /\ ~effectPending' /\ ~recordingNow)
             => targetParamsRef' = baseParams]_vars

\* C20 witness: a call during Recording with a loud frame and no loading has
\* set a target that differs from baseParams
C20_Witness ==
  /\ recordingPhase = "recording"
  /\ dataToSend.isRecording
  /\ ~loadingState.isLoading
  /\ ~effectPending
  /\ targetParamsRef = AudioTargets(baseParams, dataToSend.frame)
  /\ targetParamsRef # baseParams

\* C21: every target processAudioData writes carries the torusMode baseParams
\* had at that call, and baseParams.torusMode changes only when a loading
\* sequence starts (to true), when its deferred completion runs (to false)
\* or by setTorusMode; the arrival of a frame never changes it.
C21_FramesNeverToggleTorusMode ==
  [][/\ (targetParamsRef' # targetParamsRef \/ (effectPending /\ ~effectPending'))
          => targetParamsRef'.torusMode = baseParams.torusMode
     /\ dataToSend' # dataToSend => baseParams' = baseParams
     /\ baseParams'.torusMode # baseParams.torusMode =>
          \/ Len(loadings') = Len(loadings) + 1 /\ baseParams'.torusMode
          \/ Len(loadings') = Len(loadings) - 1 /\ ~baseParams'.torusMode
          \/ UNCHANGED <<loadings, loadingState, recordingPhase, dataToSend,
                         targetParamsRef, wasRecordingRef>>]_vars

\* C21 witness: during Recording with torus mode switched on by hand, a loud
\* frame has set a target that differs from baseParams and keeps torus mode
C21_Witness ==
  /\ recordingPhase = "recording"
  /\ dataToSend.isRecording
  /\ dataToSend.frame = LoudFrame
  /\ ~effectPending
  /\ ~loadingState.isLoading
  /\ baseParams.torusMode
  /\ targetParamsRef.torusMode
  /\ targetParamsRef # baseParams

\* C22: after stopRecording() the volume is 0, the voice flag false and the
\* history empty until the next startRecording: while every invocation of
\* startRecording made so far was already in flight when stopRecording ran,
\* no step (the return of such an invocation, an analysis tick) writes them.
C22_AnalysisStateStaysResetAfterStop ==
  [][(/\ \E k \in Calls : call[k].stopped
      /\ \A k \in Calls : call[k].pc = "unused" \/ call[k].stopped)
       => /\ currentVolume' = 0
          /\ ~isVoiceDetected'
          /\ volumeHistoryRef' = <<>>]_vars

\* C23: in both analyzers the reported dominant frequency is
\* index * sampleRate / windowSize, for the window size W of a spectrum of
\* W/2 bins.
C23_FrequencyIsIndexTimesRateOverWindow ==
  fnResult.done =>
    LET expected == fnArgs.maxIndex * fnArgs.sampleRate
    IN /\ fnResult.voice.num * fnArgs.fftSize = expected * fnResult.voice.den
       /\ fnResult.analyzer.num * fnArgs.fftSize
            = expected * fnResult.analyzer.den

\* C24: while a session is capturing, the chunk list only grows at its end:
\* no step of the same session removes or reorders chunks.
C24_ChunksAppendOnlyWhileCapturing ==
  [][(/\ isRecording
      /\ mediaRecorderRef # 0
      /\ mediaRecorderRef' = mediaRecorderRef
      /\ hw[mediaRecorderRef].rec = "recording")
       => /\ Len(recordedChunksRef') >= Len(recordedChunksRef)
          /\ SubSeq(recordedChunksRef', 1, Len(recordedChunksRef))
               = recordedChunksRef]_vars

\* C29: at most one playback element is playing at any time, also when a
\* second playRecording() is issued before the play event of the first
\* element has set isPlaying.
C29_AtMostOneElementPlaying ==
  Cardinality({e \in Plays : audio[e] = "playing"}) <= 1

\* C30: a blob is published only by the stop event of a session, and it is
\* built from chunks that session's encoder delivered, never from chunks of
\* another session.
C30_BlobBuiltFromOwnSessionChunks ==
  [][(recordedAudio' # recordedAudio /\ ~recordedAudio'.isNull)
       => \E k \in Calls :
            /\ hw[k].flush # "none"
            /\ hw'[k].flush = "none"
            /\ \A i \in 1 .. Len(recordedAudio'.chunks) :
                 recordedAudio'.chunks[i] = k]_vars

\* C25: after teardown of the parameter mapper no callback it scheduled is
\* still pending: no loading-progress poll and no deferred
\* loading-completion timer.
C25_NoTimerPendingAfterTeardown ==
  ~mounted => loadings = <<>>

\* the loading sequences of the recording flow that are pending
FlowLoadings == {i \in DOMAIN loadings : loadings[i].onComplete # "none"}

\* C26: the recording phase changes only along idle -> pre-recording-loading
\* -> recording -> post-recording-loading -> idle; at most one loading
\* sequence of the recording flow is pending at a time; and such a sequence
\* starts only in the step that enters its loading phase, so a rise or a
\* fall of the flag starts it once however often processAudioData is
\* re-invoked.
C26_PhaseOrderAndSingleFlowLoading ==
  [][/\ recordingPhase' # recordingPhase =>
          <<recordingPhase, recordingPhase'>> \in
            {<<"idle", "pre-recording-loading">>,
             <<"pre-recording-loading", "recording">>,
             <<"recording", "post-recording-loading">>,
             <<"post-recording-loading", "idle">>}
     /\ Cardinality(FlowLoadings') <= 1
     /\ Cardinality(FlowLoadings') > Cardinality(FlowLoadings) =>
          /\ recordingPhase' # recordingPhase
          /\ recordingPhase' \in {"pre-recording-loading",
                                  "post-recording-loading"}
     /\ (recordingPhase' \in {"pre-recording-loading", "post-recording-loading"})
           = (FlowLoadings' # {})]_vars

\* the flag rose again during the post-recording loading, processAudioData
\* was re-invoked, and the one sequence of the stop is still the only one
C26_Witness ==
  /\ recordingPhase = "post-recording-loading"
  /\ dataToSend.isRecording
  /\ ~effectPending
  /\ Cardinality(FlowLoadings) = 1
  /\ Len(loadings) = 2

\* C27: the phase machine does not get stuck on a flag that changed during a
\* loading phase: when timers fire and processAudioData is re-invoked after
\* each phase change, a flag that stays false leads to phase idle and a flag
\* that stays true leads to phase recording.
C27_PhaseFollowsTheFlag ==
  /\ <>[](~dataToSend.isRecording) => <>[](recordingPhase = "idle")
  /\ <>[](dataToSend.isRecording) => <>[](recordingPhase = "recording")

\* the flag fell during the pre-recording loading and processAudioData has
\* run on the fallen flag
C27_Witness ==
  /\ recordingPhase = "pre-recording-loading"
  /\ ~dataToSend.isRecording
  /\ wasRecordingRef
  /\ ~effectPending

\* C28: while a loading sequence has not finished its progress ramp,
\* loadingState.isLoading and baseParams.torusMode are true, also when a
\* manual loading and a loading of the recording flow overlap (no
\* setTorusMode call is made).
C28_RunningLoadingKeepsLoadingAndTorus ==
  (\E i \in DOMAIN loadings : loadings[i].stage = "ramp")
    => loadingState.isLoading /\ baseParams.torusMode
====
